---- MODULE Spec2Model ----
(***************************************************************************)
(* Voice-assistant front-end: the structured-input protocol (useEmailInput *)
(* / useUrlInput with their modals) and the transcription timeline         *)
(* (useTranscriptionMessages), as state machines.                          *)
(*                                                                         *)
(* Strings that the code inspects character by character (the text typed   *)
(* in a modal, the published payload) are sequences of one-character       *)
(* strings; display strings that the code only copies (labels,             *)
(* placeholders, error messages) are plain strings.                        *)
(***************************************************************************)
EXTENDS Integers, Sequences, FiniteSets, TLC

VARIABLES
    showEmailInput, emailLabel, emailPlaceholder,   \* useEmailInput state
    email, emailError,                              \* EmailInputModal state
    showUrlInput, urlLabel, urlPlaceholder,         \* useUrlInput state
    url, urlError,                                  \* UrlInputModal state
    published,       \* calls of room.localParticipant.publishData, in order
    consoleErrors,   \* hooks that called console.error during the last step
    transcriptions,  \* useTranscriptionMessages state
    now,             \* the local clock, Date.now()
    randomDraws,     \* calls of Math.random() so far
    finalIds,        \* history: the segment ids delivered as final so far
    firstFinalText,  \* history: the text of the first final of each such id
    chatMessages,    \* useChat().chatMessages
    mergedMessages,  \* useChatAndTranscription: the memoised merged list
    mounted,         \* the components using the hooks are mounted
    room,            \* the room the hooks were last rendered with
    listeners,       \* per hook and room: registrations of the hook's handler
    lastEvent        \* the operation of the last step, with its input or result

emailHookVars == <<showEmailInput, emailLabel, emailPlaceholder>>
emailModalVars == <<email, emailError>>
urlHookVars == <<showUrlInput, urlLabel, urlPlaceholder>>
urlModalVars == <<url, urlError>>
inputVars == <<showEmailInput, emailLabel, emailPlaceholder, email, emailError,
               showUrlInput, urlLabel, urlPlaceholder, url, urlError,
               published, consoleErrors>>
timelineVars == <<transcriptions, now, randomDraws, finalIds>>
mergeVars == <<firstFinalText, chatMessages, mergedMessages>>
lifecycleVars == <<mounted, room, listeners>>
vars == <<inputVars, timelineVars, mergeVars, lifecycleVars, lastEvent>>

(***************************************************************************)
(* Bounds of the model.                                                    *)
(***************************************************************************)
\* publishData calls recorded before the model stops submitting
MaxPublished == 1
\* entries of the transcription list before the model stops promoting
MaxTranscriptions == 2
\* segments in one TranscriptionReceived notification
MaxBatch == 2
\* the last value of the clock
MaxClock == 1
\* registrations of one handler on one room before the model stops mounting
MaxListeners == 2
\* the length of the texts given to a validation function
MaxTextLen == 6
\* the length of what follows the scheme in the texts typed into the URL field
MaxUrlBody == 3

(***************************************************************************)
(* Characters, UTF-8 and JSON text.                                        *)
(***************************************************************************)
\* the printable ASCII characters, in code order starting at U+0020 (U+0060 is
\* spelled out: the string lexer has no literal for it)
Printable ==
    <<" ", "!", "\"", "#", "$", "%", "&", "'", "(", ")", "*", "+", ",", "-",
      ".", "/", "0", "1", "2", "3", "4", "5", "6", "7", "8", "9", ":", ";",
      "<", "=", ">", "?", "@", "A", "B", "C", "D", "E", "F", "G", "H", "I",
      "J", "K", "L", "M", "N", "O", "P", "Q", "R", "S", "T", "U", "V", "W",
      "X", "Y", "Z", "[", "\\", "]", "^", "_", "<grave>", "a", "b", "c", "d", "e",
      "f", "g", "h", "i", "j", "k", "l", "m", "n", "o", "p", "q", "r", "s",
      "t", "u", "v", "w", "x", "y", "z", "{", "|", "}", "~">>

\* the code of each printable character
CodeTable ==
    [c \in {Printable[i] : i \in 1..Len(Printable)} |->
        31 + (CHOOSE i \in 1..Len(Printable) : Printable[i] = c)]

CharCode(c) == CodeTable[c]

FromCharCode(n) == Printable[n - 31]

\* TextEncoder.encode: UTF-8; every character below U+0080 is one byte, its code
TextEncoder_encode(s) == [i \in 1..Len(s) |-> CharCode(s[i])]

\* TextDecoder.decode of bytes below 0x80
TextDecoder_decode(bytes) == [i \in 1..Len(bytes) |-> FromCharCode(bytes[i])]

RECURSIVE JSON_escape(_)
\* the body of a JSON string literal: quotation mark and reverse solidus escaped
JSON_escape(s) ==
    IF s = <<>> THEN <<>>
    ELSE LET c == Head(s)
         IN  (IF c = "\"" \/ c = "\\" THEN <<"\\", c>> ELSE <<c>>)
             \o JSON_escape(Tail(s))

\* a string literal written without escaping
JSON_quote_raw(s) == <<"\"">> \o s \o <<"\"">>

JSON_quote(s) == <<"\"">> \o JSON_escape(s) \o <<"\"">>

\* JSON.stringify({ type: 'email_submitted', email: email })
JSON_stringify_email(v) ==
    <<"{", "\"", "t", "y", "p", "e", "\"", ":", "\"", "e", "m", "a", "i", "l",
      "_", "s", "u", "b", "m", "i", "t", "t", "e", "d", "\"", ",", "\"", "e",
      "m", "a", "i", "l", "\"", ":">> \o JSON_quote(v) \o <<"}">>

\* JSON.stringify({ type: 'url_submitted', url: url })
JSON_stringify_url(v) ==
    <<"{", "\"", "t", "y", "p", "e", "\"", ":", "\"", "u", "r", "l", "_", "s",
      "u", "b", "m", "i", "t", "t", "e", "d", "\"", ",", "\"", "u", "r", "l",
      "\"", ":">> \o JSON_quote(v) \o <<"}">>

(***************************************************************************)
(* Validation of the typed text.                                           *)
(***************************************************************************)
\* the characters of the model that \s, String.prototype.trim and the URL
\* parser's leading/trailing strip treat as white space
WhiteSpace == {" ", "\t", "\n", "\r", "\f"}

RECURSIVE TrimStart(_)
TrimStart(s) ==
    IF s # <<>> /\ Head(s) \in WhiteSpace THEN TrimStart(Tail(s)) ELSE s

RECURSIVE TrimEnd(_)
TrimEnd(s) ==
    IF s # <<>> /\ s[Len(s)] \in WhiteSpace
    THEN TrimEnd(SubSeq(s, 1, Len(s) - 1))
    ELSE s

\* String.prototype.trim
Trim(s) == TrimEnd(TrimStart(s))

\* [^\s@]
EmailAtom(c) == c \notin WhiteSpace /\ c # "@"

\* one step of the automaton of /^[^\s@]+@[^\s@]+\.[^\s@]+$/ : 0 start,
\* 1 inside the local part, 2 past '@', 3 inside the domain, 4 past a '.',
\* 5 inside the last part (accepting)
EmailRegexStep(S, c) ==
    {q \in {1} : EmailAtom(c) /\ (0 \in S \/ 1 \in S)}
    \cup {q \in {2} : c = "@" /\ 1 \in S}
    \cup {q \in {3} : EmailAtom(c) /\ (2 \in S \/ 3 \in S)}
    \cup {q \in {4} : c = "." /\ 3 \in S}
    \cup {q \in {5} : EmailAtom(c) /\ (4 \in S \/ 5 \in S)}

RECURSIVE EmailRegexRun(_, _)
EmailRegexRun(S, s) ==
    IF s = <<>> THEN S ELSE EmailRegexRun(EmailRegexStep(S, Head(s)), Tail(s))

\* EmailInputModal.validateEmail: emailRegex.test(email)
\* a test for an "@" anywhere in the text
validateEmail_anyAt(s) == \E i \in 1..Len(s) : s[i] = "@"

validateEmail(s) == 5 \in EmailRegexRun({0}, s)

IsUpper(c) == \E i \in 1..Len(Printable) : Printable[i] = c /\ (i + 31) \in 65..90
IsLower(c) == \E i \in 1..Len(Printable) : Printable[i] = c /\ (i + 31) \in 97..122
IsDigit(c) == \E i \in 1..Len(Printable) : Printable[i] = c /\ (i + 31) \in 48..57
ToLower(c) == IF IsUpper(c) THEN FromCharCode(CharCode(c) + 32) ELSE c

\* a character of a URL scheme after its first letter
SchemeChar(c) == IsUpper(c) \/ IsLower(c) \/ IsDigit(c) \/ c \in {"+", "-", "."}

\* the forbidden host code points among the characters of the model
ForbiddenHostChar(c) ==
    c \in WhiteSpace \cup {"#", "/", ":", "<", ">", "?", "@", "[", "\\", "]", "^", "|"}

\* index of the first character of s from position i on that satisfies no
\* SchemeChar, or Len(s) + 1
RECURSIVE SchemeStop(_, _)
SchemeStop(s, i) ==
    IF i > Len(s) \/ ~SchemeChar(s[i]) THEN i ELSE SchemeStop(s, i + 1)

RECURSIVE SkipSlashes(_)
SkipSlashes(s) ==
    IF s # <<>> /\ Head(s) \in {"/", "\\"} THEN SkipSlashes(Tail(s)) ELSE s

\* the authority: the text up to the first path, query or fragment delimiter
RECURSIVE UpToDelimiter(_, _)
UpToDelimiter(s, delims) ==
    IF s = <<>> \/ Head(s) \in delims THEN <<>>
    ELSE <<Head(s)>> \o UpToDelimiter(Tail(s), delims)

SpecialSchemes ==
    { <<"f", "t", "p">>, <<"f", "i", "l", "e">>, <<"h", "t", "t", "p">>,
      <<"h", "t", "t", "p", "s">>, <<"w", "s">>, <<"w", "s", "s">> }

\* TRUE when an authority (host, then optionally ':' and a port) is rejected:
\* a forbidden code point in the host, or a port that is not all digits
BadAuthority(authority) ==
    LET host == UpToDelimiter(authority, {":"})
        port == SubSeq(authority, Len(host) + 2, Len(authority))
    IN  \/ \E i \in 1..Len(host) : ForbiddenHostChar(host[i])
        \/ \E i \in 1..Len(port) : ~IsDigit(port[i])

\* new URL(url) without a base, for text without credentials, percent
\* escapes, brackets or numeric hosts: the parser strips leading and trailing
\* white space, needs a scheme, and for a special scheme other than file skips
\* any slashes and needs a non-empty host free of forbidden code points.
\* The result is the protocol (the lower-cased scheme and ':'), or <<>> when
\* the constructor throws.
URL_protocol(input) ==
    LET s == Trim(input)
        k == SchemeStop(s, 1)
        hasScheme == /\ s # <<>>
                     /\ (IsUpper(s[1]) \/ IsLower(s[1]))
                     /\ k <= Len(s)
                     /\ s[k] = ":"
        scheme == [i \in 1..(k - 1) |-> ToLower(s[i])]
        rest == SubSeq(s, k + 1, Len(s))
        specialAuthority == UpToDelimiter(SkipSlashes(rest), {"/", "\\", "?", "#"})
        opaqueAuthority == UpToDelimiter(SubSeq(rest, 3, Len(rest)), {"/", "?", "#"})
        protocol == scheme \o <<":">>
    IN  IF ~hasScheme THEN <<>>
        ELSE IF scheme = <<"f", "i", "l", "e">> THEN protocol
        ELSE IF scheme \in SpecialSchemes
        THEN IF UpToDelimiter(specialAuthority, {":"}) = <<>>
                \/ BadAuthority(specialAuthority)
             THEN <<>>
             ELSE protocol
        ELSE IF Len(rest) >= 2 /\ rest[1] = "/" /\ rest[2] = "/"
                /\ BadAuthority(opaqueAuthority)
        THEN <<>>
        ELSE protocol

\* a check that accepts every text the URL parser accepts, whatever the scheme
validateUrl_anyScheme(s) == URL_protocol(s) # <<>>

\* UrlInputModal.validateUrl
validateUrl(s) ==
    LET protocol == URL_protocol(s)
    IN  protocol = <<"h", "t", "t", "p", ":">>
        \/ protocol = <<"h", "t", "t", "p", "s", ":">>

(***************************************************************************)
(* Inbound data messages.                                                  *)
(***************************************************************************)
\* the value of a property that an object does not have, and of a parameter
\* that was not passed
Undefined == "<undefined>"

DefaultEmailLabel == "Please enter your email address"
DefaultEmailPlaceholder == "your.email@example.com"
DefaultUrlLabel == "Please enter your website URL"
DefaultUrlPlaceholder == "https://www.example.com"

\* label and placeholder values carried by a message: absent, empty, or a text
LabelValues == {Undefined, "", "L"}
PlaceholderValues == {Undefined, "", "P"}

\* the label/placeholder pairs of the requests of the model: every value of
\* each field, next to a usable and to an unusable other field
Hints ==
    { <<Undefined, Undefined>>, <<"", "P">>, <<"L", "">>, <<"L", "P">> }

\* The payload of a DataReceived notification, by the text it decodes to:
\* text that is not JSON, the JSON text null, or a JSON object with the
\* properties the handlers read (Undefined: the object has no such property).
RequestPayloads ==
    { p \in [json : {"object"}, type : {"request_input"},
             input_type : {"email", "url"},
             label : LabelValues, placeholder : PlaceholderValues] :
        <<p.label, p.placeholder>> \in Hints }

OtherPayloads ==
    [json : {"object"}, type : {"other"}, input_type : {"email", "url"},
     label : {"L"}, placeholder : {"P"}]
    \cup [json : {"object"}, type : {"request_input", Undefined},
          input_type : {Undefined}, label : {"L"}, placeholder : {"P"}]

BrokenPayloads ==
    [json : {"malformed", "null"}, type : {Undefined}, input_type : {Undefined},
     label : {Undefined}, placeholder : {Undefined}]

Payloads == RequestPayloads \cup OtherPayloads \cup BrokenPayloads

\* the topic argument of the notification
Topics == {"email_input", "url_input", Undefined}

\* JSON.parse(decoder.decode(payload)) followed by the first property access:
\* "SyntaxError" for text that is not JSON, "TypeError" for null (data.type
\* of null throws), otherwise the object
JSON_parse(payload) ==
    IF payload.json = "malformed" THEN [threw |-> "SyntaxError", data |-> payload]
    ELSE IF payload.json = "null" THEN [threw |-> "TypeError", data |-> payload]
    ELSE [threw |-> "", data |-> payload]

\* a || b for string-or-undefined a
OrDefault(a, b) == IF a = Undefined \/ a = "" THEN b ELSE a

(***************************************************************************)
(* useEmailInput and useUrlInput.                                          *)
(***************************************************************************)
\* a handler that keeps the label and placeholder of the earlier request where
\* the message has none
useEmailInput_handleDataReceived_carryOver(payload, topic) ==
    LET parsed == JSON_parse(payload)
        data == parsed.data
    IN  IF parsed.threw # ""
        THEN [show |-> showEmailInput, label |-> emailLabel,
              placeholder |-> emailPlaceholder, logged |-> TRUE, escaped |-> FALSE]
        ELSE IF data.type = "request_input" /\ data.input_type = "email"
        THEN [show |-> TRUE,
              label |-> OrDefault(data.label, emailLabel),
              placeholder |-> OrDefault(data.placeholder, emailPlaceholder),
              logged |-> FALSE, escaped |-> FALSE]
        ELSE [show |-> showEmailInput, label |-> emailLabel,
              placeholder |-> emailPlaceholder, logged |-> FALSE, escaped |-> FALSE]

\* a handler without the try/catch around decoding
useEmailInput_handleDataReceived_noCatch(payload, topic) ==
    LET parsed == JSON_parse(payload)
        data == parsed.data
    IN  IF parsed.threw # ""
        THEN [show |-> showEmailInput, label |-> emailLabel,
              placeholder |-> emailPlaceholder, logged |-> FALSE, escaped |-> TRUE]
        ELSE IF data.type = "request_input" /\ data.input_type = "email"
        THEN [show |-> TRUE,
              label |-> OrDefault(data.label, DefaultEmailLabel),
              placeholder |-> OrDefault(data.placeholder, DefaultEmailPlaceholder),
              logged |-> FALSE, escaped |-> FALSE]
        ELSE [show |-> showEmailInput, label |-> emailLabel,
              placeholder |-> emailPlaceholder, logged |-> FALSE, escaped |-> FALSE]

\* a handler that ignores a request while the modal is visible
useEmailInput_handleDataReceived_firstWins(payload, topic) ==
    LET parsed == JSON_parse(payload)
        data == parsed.data
    IN  IF parsed.threw # ""
        THEN [show |-> showEmailInput, label |-> emailLabel,
              placeholder |-> emailPlaceholder, logged |-> TRUE, escaped |-> FALSE]
        ELSE IF data.type = "request_input" /\ data.input_type = "email"
                /\ ~showEmailInput
        THEN [show |-> TRUE,
              label |-> OrDefault(data.label, DefaultEmailLabel),
              placeholder |-> OrDefault(data.placeholder, DefaultEmailPlaceholder),
              logged |-> FALSE, escaped |-> FALSE]
        ELSE [show |-> showEmailInput, label |-> emailLabel,
              placeholder |-> emailPlaceholder, logged |-> FALSE, escaped |-> FALSE]

\* a handler that takes the request of any kind for an email request
useEmailInput_handleDataReceived_anyKind(payload, topic) ==
    LET parsed == JSON_parse(payload)
        data == parsed.data
    IN  IF parsed.threw # ""
        THEN [show |-> showEmailInput, label |-> emailLabel,
              placeholder |-> emailPlaceholder, logged |-> TRUE, escaped |-> FALSE]
        ELSE IF data.type = "request_input"
        THEN [show |-> TRUE,
              label |-> OrDefault(data.label, DefaultEmailLabel),
              placeholder |-> OrDefault(data.placeholder, DefaultEmailPlaceholder),
              logged |-> FALSE, escaped |-> FALSE]
        ELSE [show |-> showEmailInput, label |-> emailLabel,
              placeholder |-> emailPlaceholder, logged |-> FALSE, escaped |-> FALSE]

\* a handler that hides the modal on a message that is no email request
useEmailInput_handleDataReceived_hideOnOther(payload, topic) ==
    LET parsed == JSON_parse(payload)
        data == parsed.data
    IN  IF parsed.threw # ""
        THEN [show |-> showEmailInput, label |-> emailLabel,
              placeholder |-> emailPlaceholder, logged |-> TRUE, escaped |-> FALSE]
        ELSE IF data.type = "request_input" /\ data.input_type = "email"
        THEN [show |-> TRUE,
              label |-> OrDefault(data.label, DefaultEmailLabel),
              placeholder |-> OrDefault(data.placeholder, DefaultEmailPlaceholder),
              logged |-> FALSE, escaped |-> FALSE]
        ELSE [show |-> FALSE, label |-> emailLabel,
              placeholder |-> emailPlaceholder, logged |-> FALSE, escaped |-> FALSE]

\* useEmailInput.handleDataReceived: the hook's state after the handler, and
\* whether it called console.error
useEmailInput_handleDataReceived(payload, topic) ==
    LET parsed == JSON_parse(payload)
        data == parsed.data
    IN  IF parsed.threw # ""
        THEN [show |-> showEmailInput, label |-> emailLabel,
              placeholder |-> emailPlaceholder, logged |-> TRUE, escaped |-> FALSE]
        ELSE IF data.type = "request_input" /\ data.input_type = "email"
        THEN [show |-> TRUE,
              label |-> OrDefault(data.label, DefaultEmailLabel),
              placeholder |-> OrDefault(data.placeholder, DefaultEmailPlaceholder),
              logged |-> FALSE, escaped |-> FALSE]
        ELSE [show |-> showEmailInput, label |-> emailLabel,
              placeholder |-> emailPlaceholder, logged |-> FALSE, escaped |-> FALSE]

\* a handler that opens the URL modal on every request_input message
useUrlInput_handleDataReceived_anyKind(payload, topic) ==
    LET parsed == JSON_parse(payload)
        data == parsed.data
    IN  IF topic # "url_input"
        THEN [show |-> showUrlInput, label |-> urlLabel,
              placeholder |-> urlPlaceholder, logged |-> FALSE, escaped |-> FALSE]
        ELSE IF parsed.threw # ""
        THEN [show |-> showUrlInput, label |-> urlLabel,
              placeholder |-> urlPlaceholder, logged |-> TRUE, escaped |-> FALSE]
        ELSE IF data.type = "request_input"
        THEN [show |-> TRUE,
              label |-> OrDefault(data.label, DefaultUrlLabel),
              placeholder |-> OrDefault(data.placeholder, DefaultUrlPlaceholder),
              logged |-> FALSE, escaped |-> FALSE]
        ELSE [show |-> showUrlInput, label |-> urlLabel,
              placeholder |-> urlPlaceholder, logged |-> FALSE, escaped |-> FALSE]

\* useUrlInput.handleDataReceived
useUrlInput_handleDataReceived(payload, topic) ==
    LET parsed == JSON_parse(payload)
        data == parsed.data
    IN  IF topic # "url_input"
        THEN [show |-> showUrlInput, label |-> urlLabel,
              placeholder |-> urlPlaceholder, logged |-> FALSE, escaped |-> FALSE]
        ELSE IF parsed.threw # ""
        THEN [show |-> showUrlInput, label |-> urlLabel,
              placeholder |-> urlPlaceholder, logged |-> TRUE, escaped |-> FALSE]
        ELSE IF data.type = "request_input" /\ data.input_type = "url"
        THEN [show |-> TRUE,
              label |-> OrDefault(data.label, DefaultUrlLabel),
              placeholder |-> OrDefault(data.placeholder, DefaultUrlPlaceholder),
              logged |-> FALSE, escaped |-> FALSE]
        ELSE [show |-> showUrlInput, label |-> urlLabel,
              placeholder |-> urlPlaceholder, logged |-> FALSE, escaped |-> FALSE]

\* what room.localParticipant.publishData does with a call: it returns a
\* promise that is fulfilled or rejected later, or it throws
PublishOutcomes == {"fulfilled", "rejected", "throws"}

\* a submit that publishes and leaves the modal open
submitEmail_stayOpen(v, outcome) ==
    [published |-> Append(published,
                          [data |-> TextEncoder_encode(JSON_stringify_email(v)),
                           reliable |-> TRUE]),
     show |-> showEmailInput,
     threw |-> outcome = "throws"]

\* submitEmail: the publishData call, then setShowEmailInput(false) unless
\* the call threw. published is the log of the calls of publishData, in
\* order, each with its data and options argument.
submitEmail(v, outcome) ==
    [published |-> Append(published,
                          [data |-> TextEncoder_encode(JSON_stringify_email(v)),
                           reliable |-> TRUE]),
     show |-> IF outcome = "throws" THEN showEmailInput ELSE FALSE,
     threw |-> outcome = "throws"]

\* a close that also puts back the default label and placeholder
closeEmailInput_reset ==
    [show |-> FALSE, label |-> DefaultEmailLabel,
     placeholder |-> DefaultEmailPlaceholder, published |-> published]

\* closeEmailInput
closeEmailInput ==
    [show |-> FALSE, label |-> emailLabel, placeholder |-> emailPlaceholder,
     published |-> published]

\* a submit that hides the modal only once the publish is acknowledged
submitUrl_awaiting(v, outcome) ==
    [published |-> Append(published,
                          [data |-> TextEncoder_encode(JSON_stringify_url(v)),
                           reliable |-> TRUE]),
     show |-> IF outcome = "fulfilled" THEN FALSE ELSE showUrlInput,
     threw |-> outcome = "throws"]

\* submitUrl
submitUrl(v, outcome) ==
    [published |-> Append(published,
                          [data |-> TextEncoder_encode(JSON_stringify_url(v)),
                           reliable |-> TRUE]),
     show |-> IF outcome = "throws" THEN showUrlInput ELSE FALSE,
     threw |-> outcome = "throws"]

\* closeUrlInput
closeUrlInput ==
    [show |-> FALSE, label |-> urlLabel, placeholder |-> urlPlaceholder,
     published |-> published]

(***************************************************************************)
(* EmailInputModal and UrlInputModal, rendered with isOpen, label,         *)
(* placeholder, onSubmit and onClose bound to the hook of the same kind.   *)
(***************************************************************************)
EmailRequired == "Email is required"
EmailInvalid == "Please enter a valid email address"
UrlRequired == "URL is required"
UrlInvalid == "Please enter a valid URL (e.g., https://www.example.com)"

\* texts the user types into the email field
EmailValues ==
    { <<>>, <<" ">>, <<"a", "@", "b">>, <<"q", "\"", "@", "b", ".", "c">> }

\* texts the user types into the URL field
UrlValues ==
    { <<>>, <<"a", " ", "b">>,
      <<"f", "t", "p", ":", "/", "/", "a", ".", "b">>,
      <<"h", "t", "t", "p", "s", ":", "/", "/", "a", ".", "b">> }

\* a submit handler that checks only that the field is not blank
EmailInputModal_handleSubmit_unvalidated(outcome) ==
    IF Trim(email) = <<>>
    THEN [email |-> email, error |-> EmailRequired, show |-> showEmailInput,
          published |-> published, result |-> "required", escaped |-> FALSE]
    ELSE LET Done(r) ==
                 [email |-> IF r.threw THEN email ELSE <<>>, error |-> "",
                  show |-> r.show, published |-> r.published,
                  result |-> outcome, escaped |-> r.threw]
         IN  CHOOSE after \in {Done(submitEmail(email, outcome))} : TRUE

\* a submit handler that tests the text for emptiness without trimming it
EmailInputModal_handleSubmit_untrimmed(outcome) ==
    IF email = <<>>
    THEN [email |-> email, error |-> EmailRequired, show |-> showEmailInput,
          published |-> published, result |-> "required", escaped |-> FALSE]
    ELSE IF ~validateEmail(email)
    THEN [email |-> email, error |-> EmailInvalid, show |-> showEmailInput,
          published |-> published, result |-> "invalid", escaped |-> FALSE]
    ELSE LET Done(r) ==
                 [email |-> IF r.threw THEN email ELSE <<>>, error |-> "",
                  show |-> r.show, published |-> r.published,
                  result |-> outcome, escaped |-> r.threw]
         IN  CHOOSE after \in {Done(submitEmail(email, outcome))} : TRUE

\* a submit handler that leaves the submitted text in the field
EmailInputModal_handleSubmit_keepValue(outcome) ==
    IF Trim(email) = <<>>
    THEN [email |-> email, error |-> EmailRequired, show |-> showEmailInput,
          published |-> published, result |-> "required", escaped |-> FALSE]
    ELSE IF ~validateEmail(email)
    THEN [email |-> email, error |-> EmailInvalid, show |-> showEmailInput,
          published |-> published, result |-> "invalid", escaped |-> FALSE]
    ELSE LET Done(r) ==
                 [email |-> email, error |-> "",
                  show |-> r.show, published |-> r.published,
                  result |-> outcome, escaped |-> r.threw]
         IN  CHOOSE after \in {Done(submitEmail(email, outcome))} : TRUE

\* EmailInputModal.handleSubmit: the modal's and the hook's state after it;
\* escaped: an exception left the handler
EmailInputModal_handleSubmit(outcome) ==
    IF Trim(email) = <<>>
    THEN [email |-> email, error |-> EmailRequired, show |-> showEmailInput,
          published |-> published, result |-> "required", escaped |-> FALSE]
    ELSE IF ~validateEmail(email)
    THEN [email |-> email, error |-> EmailInvalid, show |-> showEmailInput,
          published |-> published, result |-> "invalid", escaped |-> FALSE]
    ELSE LET Done(r) ==
                 [email |-> IF r.threw THEN email ELSE <<>>, error |-> "",
                  show |-> r.show, published |-> r.published,
                  result |-> outcome, escaped |-> r.threw]
         IN  CHOOSE after \in {Done(submitEmail(email, outcome))} : TRUE

\* UrlInputModal.handleSubmit
UrlInputModal_handleSubmit(outcome) ==
    IF Trim(url) = <<>>
    THEN [url |-> url, error |-> UrlRequired, show |-> showUrlInput,
          published |-> published, result |-> "required", escaped |-> FALSE]
    ELSE IF ~validateUrl(url)
    THEN [url |-> url, error |-> UrlInvalid, show |-> showUrlInput,
          published |-> published, result |-> "invalid", escaped |-> FALSE]
    ELSE LET Done(r) ==
                 [url |-> IF r.threw THEN url ELSE <<>>, error |-> "",
                  show |-> r.show, published |-> r.published,
                  result |-> outcome, escaped |-> r.threw]
         IN  CHOOSE after \in {Done(submitUrl(url, outcome))} : TRUE

(***************************************************************************)
(* The effect of each hook: room.on in the setup, room.off in the cleanup, *)
(* run again when the room changes.                                        *)
(***************************************************************************)
Rooms == {"room1", "room2"}
Hooks == {"useEmailInput", "useUrlInput", "useTranscriptionMessages"}

\* no handler registered on any room
NoListeners == [h \in Hooks |-> [r \in Rooms |-> 0]]

\* room.on(event, handler) and room.off(event, handler) for the handler of hook
on(ls, hook, r) == [ls EXCEPT ![hook][r] = @ + 1]
off(ls, hook, r) == [ls EXCEPT ![hook][r] = IF @ > 0 THEN @ - 1 ELSE 0]

\* the setup of each hook's effect for the room r, and the cleanup that setup
\* returned
useEmailInput_setup(ls, r) == on(ls, "useEmailInput", r)

\* a cleanup that leaves the handler on the room
useEmailInput_cleanup_none(ls, r) == ls

useEmailInput_cleanup(ls, r) == off(ls, "useEmailInput", r)

useUrlInput_setup(ls, r) == on(ls, "useUrlInput", r)

useUrlInput_cleanup(ls, r) == off(ls, "useUrlInput", r)

useTranscriptionMessages_setup(ls, r) == on(ls, "useTranscriptionMessages", r)

useTranscriptionMessages_cleanup(ls, r) == off(ls, "useTranscriptionMessages", r)

\* an effect that is not run again when the room changes
EffectOnRoomChange_never(ls, old, new) == ls

\* the effects of the three hooks when the room changes from old to new: the
\* dependency array is [room], so the cleanups of the setups for old run,
\* then the setups for new
EffectOnRoomChange(ls, old, new) ==
    useTranscriptionMessages_setup(
        useUrlInput_setup(
            useEmailInput_setup(
                useTranscriptionMessages_cleanup(
                    useUrlInput_cleanup(useEmailInput_cleanup(ls, old), old), old),
                new), new), new)

SetupAll(ls, r) ==
    useTranscriptionMessages_setup(useUrlInput_setup(useEmailInput_setup(ls, r), r), r)
CleanupAll(ls, r) ==
    useTranscriptionMessages_cleanup(
        useUrlInput_cleanup(useEmailInput_cleanup(ls, r), r), r)

(***************************************************************************)
(* The state machine of the structured-input protocol.                     *)
(***************************************************************************)
Init ==
    /\ showEmailInput = FALSE
    /\ emailLabel = DefaultEmailLabel
    /\ emailPlaceholder = DefaultEmailPlaceholder
    /\ email = <<>>
    /\ emailError = ""
    /\ showUrlInput = FALSE
    /\ urlLabel = DefaultUrlLabel
    /\ urlPlaceholder = DefaultUrlPlaceholder
    /\ url = <<>>
    /\ urlError = ""
    /\ published = <<>>
    /\ consoleErrors = {}
    /\ transcriptions = <<>>
    /\ now = 0
    /\ randomDraws = 0
    /\ finalIds = {}
    /\ firstFinalText = <<>>
    /\ chatMessages = <<>>
    /\ mergedMessages = <<>>
    /\ mounted = TRUE
    /\ room = "room1"
    /\ listeners = SetupAll(NoListeners, "room1")
    /\ lastEvent = [op |-> "mount"]

\* what a hook's state is after a notification none of its handlers saw
NotHandled(show, label, placeholder) ==
    [show |-> show, label |-> label, placeholder |-> placeholder,
     logged |-> FALSE, escaped |-> FALSE]

\* the room r emits DataReceived(payload, participant, kind, topic): the
\* handlers registered on r run on the notification. With traced, lastEvent
\* keeps the notification and the hooks' state before it.
Notify(r, payload, topic, traced) ==
    \E e \in {IF listeners["useEmailInput"][r] > 0
               THEN useEmailInput_handleDataReceived(payload, topic)
               ELSE NotHandled(showEmailInput, emailLabel, emailPlaceholder)},
       u \in {IF listeners["useUrlInput"][r] > 0
               THEN useUrlInput_handleDataReceived(payload, topic)
               ELSE NotHandled(showUrlInput, urlLabel, urlPlaceholder)} :
        /\ showEmailInput' = e.show
        /\ emailLabel' = e.label
        /\ emailPlaceholder' = e.placeholder
        /\ showUrlInput' = u.show
        /\ urlLabel' = u.label
        /\ urlPlaceholder' = u.placeholder
        /\ consoleErrors' = {h \in {"useEmailInput"} : e.logged}
                            \cup {h \in {"useUrlInput"} : u.logged}
        /\ lastEvent' =
               IF traced
               THEN [op |-> "DataReceived", escaped |-> e.escaped \/ u.escaped,
                     from |-> r, payload |-> payload, topic |-> topic,
                     before |-> [email |-> emailHookVars, url |-> urlHookVars]]
               ELSE [op |-> "DataReceived", escaped |-> e.escaped \/ u.escaped,
                     from |-> r]
        /\ UNCHANGED <<emailModalVars, urlModalVars, published, timelineVars,
                 mergeVars, lifecycleVars>>

DataReceived ==
    \E payload \in Payloads, topic \in Topics : Notify(room, payload, topic, FALSE)

DataReceivedTraced ==
    \E payload \in Payloads, topic \in Topics : Notify(room, payload, topic, TRUE)

\* an onChange that leaves the error string as it is
EmailChange_keepError ==
    /\ showEmailInput
    /\ \E v \in EmailValues : email' = v
    /\ emailError' = emailError
    /\ consoleErrors' = {}
    /\ lastEvent' = [op |-> "EmailChange", error |-> emailError]
    /\ UNCHANGED <<emailHookVars, urlHookVars, urlModalVars, published, timelineVars,
                 mergeVars, lifecycleVars>>

\* a keystroke in the email field (the input's onChange); lastEvent keeps the
\* error string shown before it
EmailChange ==
    /\ showEmailInput
    /\ \E v \in EmailValues : email' = v
    /\ emailError' = ""
    /\ consoleErrors' = {}
    /\ lastEvent' = [op |-> "EmailChange", error |-> emailError]
    /\ UNCHANGED <<emailHookVars, urlHookVars, urlModalVars, published, timelineVars,
                 mergeVars, lifecycleVars>>

\* the email form is submitted
EmailSubmit ==
    /\ showEmailInput
    /\ \E outcome \in PublishOutcomes :
           \E r \in {EmailInputModal_handleSubmit(outcome)} :
               /\ Len(r.published) <= MaxPublished
               /\ email' = r.email
               /\ emailError' = r.error
               /\ showEmailInput' = r.show
               /\ published' = r.published
               /\ lastEvent' = [op |-> "EmailSubmit", result |-> r.result,
                                escaped |-> r.escaped]
    /\ consoleErrors' = {}
    /\ UNCHANGED <<emailLabel, emailPlaceholder, urlHookVars, urlModalVars, timelineVars,
                 mergeVars, lifecycleVars>>

\* EmailInputModal.handleClose: cancel button, close button or backdrop
EmailClose ==
    /\ showEmailInput
    /\ email' = <<>>
    /\ emailError' = ""
    /\ showEmailInput' = closeEmailInput.show
    /\ emailLabel' = closeEmailInput.label
    /\ emailPlaceholder' = closeEmailInput.placeholder
    /\ published' = closeEmailInput.published
    /\ consoleErrors' = {}
    /\ lastEvent' = [op |-> "EmailClose", error |-> emailError]
    /\ UNCHANGED <<urlHookVars, urlModalVars, timelineVars,
                 mergeVars, lifecycleVars>>

\* a keystroke in the URL field
UrlChange ==
    /\ showUrlInput
    /\ \E v \in UrlValues : url' = v
    /\ urlError' = ""
    /\ consoleErrors' = {}
    /\ lastEvent' = [op |-> "UrlChange", error |-> urlError]
    /\ UNCHANGED <<emailHookVars, emailModalVars, urlHookVars, published, timelineVars,
                 mergeVars, lifecycleVars>>

\* the URL form is submitted
UrlSubmit ==
    /\ showUrlInput
    /\ \E outcome \in PublishOutcomes :
           \E r \in {UrlInputModal_handleSubmit(outcome)} :
               /\ Len(r.published) <= MaxPublished
               /\ url' = r.url
               /\ urlError' = r.error
               /\ showUrlInput' = r.show
               /\ published' = r.published
               /\ lastEvent' = [op |-> "UrlSubmit", result |-> r.result,
                                escaped |-> r.escaped]
    /\ consoleErrors' = {}
    /\ UNCHANGED <<urlLabel, urlPlaceholder, emailHookVars, emailModalVars, timelineVars,
                 mergeVars, lifecycleVars>>

\* UrlInputModal.handleClose
UrlClose ==
    /\ showUrlInput
    /\ url' = <<>>
    /\ urlError' = ""
    /\ showUrlInput' = closeUrlInput.show
    /\ urlLabel' = closeUrlInput.label
    /\ urlPlaceholder' = closeUrlInput.placeholder
    /\ published' = closeUrlInput.published
    /\ consoleErrors' = {}
    /\ lastEvent' = [op |-> "UrlClose", error |-> urlError]
    /\ UNCHANGED <<emailHookVars, emailModalVars, timelineVars,
                 mergeVars, lifecycleVars>>

Next ==
    \/ DataReceived
    \/ EmailChange
    \/ EmailSubmit
    \/ EmailClose
    \/ UrlChange
    \/ UrlSubmit
    \/ UrlClose

Spec == Init /\ [][Next]_vars

\* the inbound side alone: notifications, kept in lastEvent, and a user who
\* only ever dismisses the modals
NextInbound ==
    \/ DataReceivedTraced
    \/ EmailClose
    \/ UrlClose

SpecInbound == Init /\ [][NextInbound]_vars

(***************************************************************************)
(* useTranscriptionMessages.                                               *)
(***************************************************************************)
\* room.localParticipant and a remote participant
LocalParticipant == [identity |-> "user", sid |-> "local"]
AgentParticipant == [identity |-> "agent", sid |-> "remote"]
Participants == {LocalParticipant, AgentParticipant}

\* the segments of the model: id "a" as interim text, as final text and as a
\* final with a revised text, and a final without usable id
Segments ==
    { [id |-> "a", text |-> "hi", final |-> FALSE],
      [id |-> "a", text |-> "hi", final |-> TRUE],
      [id |-> "a", text |-> "hi there", final |-> TRUE],
      [id |-> "", text |-> "hi", final |-> TRUE] }

\* the segments argument of a notification
Batches == UNION {[1..n -> Segments] : n \in 0..MaxBatch}

\* the ids of timeline entries: a segment's own id, or the string
\* `transcription-${Date.now()}-${Math.random()}`, where distinct draws of
\* Math.random() are taken to give distinct values
SegmentId(id) == [made |-> "segment", id |-> id, draw |-> 0]
GeneratedId(draw) == [made |-> "generated", id |-> "transcription-", draw |-> draw]

\* an iteration that promotes interim segments too
PromoteSegment_anySegment(segment, participant, t, prev, draws) ==
    LET isLocal == participant.identity = LocalParticipant.identity
        generated == segment.id \in {Undefined, ""}
        transcriptionMessage ==
            [id |-> IF generated THEN GeneratedId(draws + 1)
                    ELSE SegmentId(segment.id),
             timestamp |-> t,
             message |-> segment.text,
             from |-> IF isLocal THEN LocalParticipant ELSE participant]
    IN  [list |-> IF \E i \in 1..Len(prev) : prev[i].id = transcriptionMessage.id
                  THEN prev
                  ELSE Append(prev, transcriptionMessage),
         draws |-> IF generated THEN draws + 1 ELSE draws, clock |-> TRUE]

\* an iteration whose duplicate check reads the list of the last render
\* instead of the list the updater is given
PromoteSegment_staleList(segment, participant, t, prev, draws) ==
    IF ~segment.final THEN [list |-> prev, draws |-> draws, clock |-> FALSE]
    ELSE LET isLocal == participant.identity = LocalParticipant.identity
             generated == segment.id \in {Undefined, ""}
             transcriptionMessage ==
                 [id |-> IF generated THEN GeneratedId(draws + 1)
                         ELSE SegmentId(segment.id),
                  timestamp |-> t,
                  message |-> segment.text,
                  from |-> IF isLocal THEN LocalParticipant ELSE participant]
         IN  [list |-> IF \E i \in 1..Len(transcriptions) :
                              transcriptions[i].id = transcriptionMessage.id
                       THEN prev
                       ELSE Append(prev, transcriptionMessage),
              draws |-> IF generated THEN draws + 1 ELSE draws, clock |-> TRUE]

\* an iteration that stamps the entry with the time origin instead of the
\* clock reading
PromoteSegment_fixedTime(segment, participant, t, prev, draws) ==
    IF ~segment.final THEN [list |-> prev, draws |-> draws, clock |-> FALSE]
    ELSE LET isLocal == participant.identity = LocalParticipant.identity
             generated == segment.id \in {Undefined, ""}
             transcriptionMessage ==
                 [id |-> IF generated THEN GeneratedId(draws + 1)
                         ELSE SegmentId(segment.id),
                  timestamp |-> 0,
                  message |-> segment.text,
                  from |-> IF isLocal THEN LocalParticipant ELSE participant]
         IN  [list |-> IF \E i \in 1..Len(prev) : prev[i].id = transcriptionMessage.id
                       THEN prev
                       ELSE Append(prev, transcriptionMessage),
              draws |-> IF generated THEN draws + 1 ELSE draws, clock |-> TRUE]

\* an iteration that attributes every entry to the participant of the
\* notification
PromoteSegment_fromSender(segment, participant, t, prev, draws) ==
    IF ~segment.final THEN [list |-> prev, draws |-> draws, clock |-> FALSE]
    ELSE LET generated == segment.id \in {Undefined, ""}
             transcriptionMessage ==
                 [id |-> IF generated THEN GeneratedId(draws + 1)
                         ELSE SegmentId(segment.id),
                  timestamp |-> t,
                  message |-> segment.text,
                  from |-> participant]
         IN  [list |-> IF \E i \in 1..Len(prev) : prev[i].id = transcriptionMessage.id
                       THEN prev
                       ELSE Append(prev, transcriptionMessage),
              draws |-> IF generated THEN draws + 1 ELSE draws, clock |-> TRUE]

\* an iteration whose generated id has no random part
PromoteSegment_constantId(segment, participant, t, prev, draws) ==
    IF ~segment.final THEN [list |-> prev, draws |-> draws, clock |-> FALSE]
    ELSE LET isLocal == participant.identity = LocalParticipant.identity
             generated == segment.id \in {Undefined, ""}
             transcriptionMessage ==
                 [id |-> IF generated THEN GeneratedId(1)
                         ELSE SegmentId(segment.id),
                  timestamp |-> t,
                  message |-> segment.text,
                  from |-> IF isLocal THEN LocalParticipant ELSE participant]
         IN  [list |-> IF \E i \in 1..Len(prev) : prev[i].id = transcriptionMessage.id
                       THEN prev
                       ELSE Append(prev, transcriptionMessage),
              draws |-> IF generated THEN draws + 1 ELSE draws, clock |-> TRUE]

\* one iteration of segments.forEach at clock reading t, from the list prev
\* after draws calls of Math.random(): the list and the number of draws after
\* it, and whether it read the clock. The updater of setTranscriptions runs
\* on the list the earlier iterations produced.
PromoteSegment(segment, participant, t, prev, draws) ==
    IF ~segment.final THEN [list |-> prev, draws |-> draws, clock |-> FALSE]
    ELSE LET isLocal == participant.identity = LocalParticipant.identity
             generated == segment.id \in {Undefined, ""}
             transcriptionMessage ==
                 [id |-> IF generated THEN GeneratedId(draws + 1)
                         ELSE SegmentId(segment.id),
                  timestamp |-> t,
                  message |-> segment.text,
                  from |-> IF isLocal THEN LocalParticipant ELSE participant]
         IN  [list |-> IF \E i \in 1..Len(prev) : prev[i].id = transcriptionMessage.id
                       THEN prev
                       ELSE Append(prev, transcriptionMessage),
              draws |-> IF generated THEN draws + 1 ELSE draws, clock |-> TRUE]

RECURSIVE ProcessSegments(_, _, _, _, _)
ProcessSegments(segments, participant, reads, prev, draws) ==
    IF segments = <<>> THEN [list |-> prev, draws |-> draws]
    ELSE CHOOSE after \in
             {ProcessSegments(Tail(segments), participant,
                              IF r.clock /\ reads # <<>> THEN Tail(reads) ELSE reads,
                              r.list, r.draws) :
                  r \in {PromoteSegment(Head(segments), participant,
                                        IF reads = <<>> THEN now ELSE Head(reads),
                                        prev, draws)}} : TRUE

\* handleTranscriptionReceived; reads[i] is the clock when the i-th final
\* segment is handled: an interim segment does not read the clock
handleTranscriptionReceived(segments, participant, reads) ==
    ProcessSegments(segments, participant, reads, transcriptions, randomDraws)

RECURSIVE ReadsFrom(_, _)
\* n clock readings that start at lo or later and never decrease
ReadsFrom(n, lo) ==
    IF n = 0 THEN {<<>>}
    ELSE UNION {{<<t>> \o rest : rest \in ReadsFrom(n - 1, t)} : t \in lo..MaxClock}

\* the clock readings of one handler run: the clock at its start, then never
\* decreasing
ClockReads(n) ==
    IF n = 0 THEN {<<>>}
    ELSE {<<now>> \o rest : rest \in ReadsFrom(n - 1, now)}

\* the ids of the final segments of a batch
FinalIdsOf(segments) ==
    {segments[i].id : i \in {j \in 1..Len(segments) : segments[j].final}}

RECURSIVE FirstFinals(_, _)
\* the text of the first final of each id, known extended by the batch
FirstFinals(segments, known) ==
    IF segments = <<>> THEN known
    ELSE LET s == Head(segments)
         IN  FirstFinals(Tail(segments),
                         IF s.final /\ s.id \notin DOMAIN known
                         THEN known @@ (s.id :> s.text) ELSE known)

(***************************************************************************)
(* useChatAndTranscription.                                                *)
(***************************************************************************)
\* an insertion in front of the entries of the same timestamp
InsertByTimestamp_unstable(sorted, x) ==
    LET k == Cardinality({i \in 1..Len(sorted) : sorted[i].timestamp < x.timestamp})
    IN  SubSeq(sorted, 1, k) \o <<x>> \o SubSeq(sorted, k + 1, Len(sorted))

\* the position of x in sorted under (a, b) => a.timestamp - b.timestamp with
\* a stable sort: behind every entry that is not later than x
InsertByTimestamp(sorted, x) ==
    LET k == Cardinality({i \in 1..Len(sorted) : sorted[i].timestamp <= x.timestamp})
    IN  SubSeq(sorted, 1, k) \o <<x>> \o SubSeq(sorted, k + 1, Len(sorted))

\* no sorting at all
Array_sort_none(list) == list

\* the array turned round: the entry added last comes first
Array_sort_newestFirst(list) == [i \in 1..Len(list) |-> list[Len(list) + 1 - i]]

RECURSIVE Array_sort(_)
\* merged.sort((a, b) => a.timestamp - b.timestamp): Array.prototype.sort is
\* stable
Array_sort(list) ==
    IF list = <<>> THEN <<>>
    ELSE InsertByTimestamp(Array_sort(SubSeq(list, 1, Len(list) - 1)),
                           list[Len(list)])

\* a callback that reads the chat messages of the render before
mergedMessages_memo_stale(ts, chat) ==
    [sorted |-> Array_sort(ts \o chatMessages), transcriptions |-> ts,
     chatMessages |-> chat]

\* a callback that sorts the chat messages where they are
mergedMessages_memo_inPlace(ts, chat) ==
    [sorted |-> Array_sort(ts \o chat), transcriptions |-> ts,
     chatMessages |-> Array_sort(chat)]

\* the callback of useMemo: the sorted array it returns, and the two arrays
\* it read as they are after it; the sort works on the copy the spread made
mergedMessages_memo(ts, chat) ==
    [sorted |-> Array_sort(ts \o chat), transcriptions |-> ts, chatMessages |-> chat]

\* the handlers of n registrations run one after the other on the segments
RECURSIVE Calls(_, _)
Calls(segments, n) == IF n = 0 THEN <<>> ELSE segments \o Calls(segments, n - 1)

\* the room r emits TranscriptionReceived(segments, participant): every
\* handler registered on r runs, then the merged list is recomputed; event is
\* what lastEvent keeps of the notification
Transcribed(r, segments, participant, event) ==
    \E calls \in {Calls(segments, listeners["useTranscriptionMessages"][r])} :
        \E reads \in ClockReads(Cardinality({j \in 1..Len(calls) : calls[j].final})) :
            \E h \in {handleTranscriptionReceived(calls, participant, reads)} :
                \E m \in {mergedMessages_memo(h.list, chatMessages)} :
                    /\ Len(h.list) <= MaxTranscriptions
                    /\ transcriptions' = m.transcriptions
                    /\ chatMessages' = m.chatMessages
                    /\ mergedMessages' = m.sorted
                    /\ randomDraws' = h.draws
                    /\ now' = IF reads = <<>> THEN now ELSE reads[Len(reads)]
                    /\ finalIds' = finalIds \cup FinalIdsOf(calls)
                    /\ firstFinalText' = FirstFinals(calls, firstFinalText)
                    /\ lastEvent' = event
                    /\ UNCHANGED <<inputVars, lifecycleVars>>

\* whether the segments of a notification hold a final one
BatchKind(segments) ==
    IF \E j \in 1..Len(segments) : segments[j].final THEN "finals"
    ELSE IF segments = <<>> THEN "empty"
    ELSE "interims"

Transcribe(r, segments, participant) ==
    Transcribed(r, segments, participant,
                [op |-> "TranscriptionReceived", batch |-> BatchKind(segments),
                 from |-> r])

\* the current room emits TranscriptionReceived
TranscriptionReceived ==
    \E segments \in Batches, participant \in Participants :
        Transcribe(room, segments, participant)

\* time passes between two notifications
Tick ==
    /\ now < MaxClock
    /\ now' = now + 1
    /\ lastEvent' = [op |-> "Tick"]
    /\ UNCHANGED <<inputVars, transcriptions, randomDraws, finalIds, mergeVars,
                   lifecycleVars>>

NextTimeline ==
    \/ TranscriptionReceived
    \/ Tick

SpecTimeline == Init /\ [][NextTimeline]_vars

\* the ids and the sender's timestamps of chat messages: the id "a" is also
\* the id of a segment, and a sender's clock may be ahead of the local one
ChatIds == {"c", "a"}
ChatTimestamps == 0..(MaxClock + 1)
ChatId(id) == [made |-> "chat", id |-> id, draw |-> 0]

\* the string the id of an entry is in the program
IdText(id) == IF id.made = "generated" THEN <<id.id, id.draw>> ELSE <<id.id>>

\* useChat delivers a message of the chat channel: chat.chatMessages is a
\* new array with the message behind the earlier ones, and the merged list
\* is recomputed
ChatReceived ==
    \E id \in ChatIds, t \in ChatTimestamps :
        /\ \A i \in 1..Len(chatMessages) : chatMessages[i].id # ChatId(id)
        /\ \E m \in {mergedMessages_memo(
                         transcriptions,
                         Append(chatMessages,
                                [id |-> ChatId(id), timestamp |-> t,
                                 message |-> "yo", from |-> LocalParticipant]))} :
               /\ transcriptions' = m.transcriptions
               /\ chatMessages' = m.chatMessages
               /\ mergedMessages' = m.sorted
        /\ lastEvent' = [op |-> "ChatReceived", id |-> id, timestamp |-> t]
        /\ UNCHANGED <<inputVars, now, randomDraws, finalIds, firstFinalText,
                       lifecycleVars>>

\* the callback of useMemo runs again on the same two lists
Recompute ==
    /\ \E m \in {mergedMessages_memo(transcriptions, chatMessages)} :
           /\ transcriptions' = m.transcriptions
           /\ chatMessages' = m.chatMessages
           /\ mergedMessages' = m.sorted
    /\ lastEvent' = [op |-> "Recompute"]
    /\ UNCHANGED <<inputVars, now, randomDraws, finalIds, firstFinalText,
                   lifecycleVars>>

\* a notification with one segment
TranscriptionReceivedOne ==
    \E segment \in Segments, participant \in Participants :
        Transcribe(room, <<segment>>, participant)

NextMerge ==
    \/ TranscriptionReceivedOne
    \/ Tick
    \/ ChatReceived
    \/ Recompute

SpecMerge == Init /\ [][NextMerge]_vars

(***************************************************************************)
(* Mounting, unmounting and the replacement of the room.                   *)
(***************************************************************************)
\* the components are mounted with the room r: every useState starts from
\* its initial value, then the setups of the effects run
Mount ==
    /\ ~mounted
    /\ \E r \in Rooms :
           /\ \A h \in Hooks : listeners[h][r] < MaxListeners
           /\ room' = r
           /\ listeners' = SetupAll(listeners, r)
    /\ mounted' = TRUE
    /\ showEmailInput' = FALSE
    /\ emailLabel' = DefaultEmailLabel
    /\ emailPlaceholder' = DefaultEmailPlaceholder
    /\ email' = <<>>
    /\ emailError' = ""
    /\ showUrlInput' = FALSE
    /\ urlLabel' = DefaultUrlLabel
    /\ urlPlaceholder' = DefaultUrlPlaceholder
    /\ url' = <<>>
    /\ urlError' = ""
    /\ transcriptions' = <<>>
    /\ mergedMessages' = mergedMessages_memo(<<>>, chatMessages).sorted
    /\ consoleErrors' = {}
    /\ lastEvent' = [op |-> "Mount"]
    /\ UNCHANGED <<published, now, randomDraws, finalIds, firstFinalText,
                   chatMessages>>

\* a render with another room that starts the transcription list afresh
ReplaceRoom_freshList ==
    /\ mounted
    /\ \E r \in Rooms \ {room} :
           /\ \A h \in Hooks : listeners[h][r] < MaxListeners
           /\ room' = r
           /\ listeners' = EffectOnRoomChange(listeners, room, r)
    /\ consoleErrors' = {}
    /\ transcriptions' = <<>>
    /\ mergedMessages' = mergedMessages_memo(<<>>, chatMessages).sorted
    /\ lastEvent' = [op |-> "ReplaceRoom"]
    /\ UNCHANGED <<emailHookVars, emailModalVars, urlHookVars, urlModalVars,
                   published, now, randomDraws, finalIds, firstFinalText,
                   chatMessages, mounted>>

\* the components are rendered with another room
ReplaceRoom ==
    /\ mounted
    /\ \E r \in Rooms \ {room} :
           /\ \A h \in Hooks : listeners[h][r] < MaxListeners
           /\ room' = r
           /\ listeners' = EffectOnRoomChange(listeners, room, r)
    /\ consoleErrors' = {}
    /\ lastEvent' = [op |-> "ReplaceRoom"]
    /\ UNCHANGED <<emailHookVars, emailModalVars, urlHookVars, urlModalVars,
                   published, timelineVars, mergeVars, mounted>>

\* the components are unmounted: the cleanups of the effects run
Unmount ==
    /\ mounted
    /\ mounted' = FALSE
    /\ listeners' = CleanupAll(listeners, room)
    /\ consoleErrors' = {}
    /\ lastEvent' = [op |-> "Unmount"]
    /\ UNCHANGED <<emailHookVars, emailModalVars, urlHookVars, urlModalVars,
                   published, timelineVars, mergeVars, room>>

\* requests with a label and a placeholder, on the topic of their kind
OwnTopic(payload) == IF payload.input_type = "email" THEN "email_input" ELSE "url_input"
LabelledRequests == {p \in RequestPayloads : p.label = "L" /\ p.placeholder = "P"}

\* any room emits DataReceived
DataReceivedOnAnyRoom ==
    \E r \in Rooms, payload \in LabelledRequests :
        Notify(r, payload, OwnTopic(payload), TRUE)

\* any room emits TranscriptionReceived with a final segment of the agent
\* that has an id
TranscriptionReceivedOnAnyRoom ==
    \E r \in Rooms, segment \in {x \in Segments : x.final /\ x.id # ""} :
        Transcribe(r, <<segment>>, AgentParticipant)

NextLifecycle ==
    \/ Mount
    \/ ReplaceRoom
    \/ Unmount
    \/ DataReceivedOnAnyRoom
    \/ TranscriptionReceivedOnAnyRoom

SpecLifecycle == Init /\ [][NextLifecycle]_vars

\* the participant argument of a notification: the local participant, the
\* agent, another participant object with the identity of the local one, or
\* none
SameIdentityParticipant == [identity |-> "user", sid |-> "remote2"]
NoParticipant == [identity |-> Undefined, sid |-> Undefined]
Speakers ==
    {LocalParticipant, AgentParticipant, SameIdentityParticipant, NoParticipant}

\* a notification with one segment from any of them, kept in lastEvent with
\* its participant
TranscriptionReceivedFrom ==
    \E segment \in Segments, participant \in Speakers :
        Transcribed(room, <<segment>>, participant,
                    [op |-> "TranscriptionReceived",
                     batch |-> BatchKind(<<segment>>), from |-> room,
                     participant |-> participant])

NextSpeakers ==
    \/ TranscriptionReceivedFrom
    \/ Tick

SpecSpeakers == Init /\ [][NextSpeakers]_vars

\* final segments of one text: with an empty id, without id, and with id "a"
SameTextFinals ==
    { [id |-> "", text |-> "hi", final |-> TRUE],
      [id |-> Undefined, text |-> "hi", final |-> TRUE],
      [id |-> "a", text |-> "hi", final |-> TRUE] }

\* the final segments of a batch that have no usable id
Unidentified(segments) ==
    Cardinality({j \in 1..Len(segments) :
                     segments[j].final /\ segments[j].id \in {Undefined, ""}})

\* a notification with such segments, kept in lastEvent with the number of
\* its finals that have no usable id
SameTextReceived ==
    \E segments \in UNION {[1..n -> SameTextFinals] : n \in 1..MaxBatch},
       participant \in Participants :
        Transcribed(room, segments, participant,
                    [op |-> "TranscriptionReceived", batch |-> BatchKind(segments),
                     from |-> room, unidentified |-> Unidentified(segments)])

NextSameText ==
    \/ SameTextReceived
    \/ Tick

SpecSameText == Init /\ [][NextSameText]_vars

\* the current room emits TranscriptionReceived for speech of the agent
AgentTranscriptionReceived ==
    \E segments \in Batches : Transcribe(room, segments, AgentParticipant)

\* notifications of the current room, with the room replaced between them
NextTimelineRooms ==
    \/ AgentTranscriptionReceived
    \/ Tick
    \/ ReplaceRoom

SpecTimelineRooms == Init /\ [][NextTimelineRooms]_vars

\* the current room delivers a request of either kind on the topic of its
\* kind, kept in lastEvent
RequestReceived ==
    \E payload \in RequestPayloads : Notify(room, payload, OwnTopic(payload), TRUE)

\* requests that arrive while the user is typing and submitting
NextRequestWhileOpen ==
    \/ RequestReceived
    \/ EmailChange
    \/ EmailSubmit
    \/ UrlChange
    \/ UrlSubmit

SpecRequestWhileOpen == Init /\ [][NextRequestWhileOpen]_vars

\* values of a JSON property that are neither a string nor falsy: a number
\* other than 0, and an object
NonStrings == {"<number>", "<object>"}

\* requests as JSON.parse returns them: the cast to the request interface
\* checks nothing, so label and placeholder are any JSON value
UntypedRequests ==
    [json : {"object"}, type : {"request_input"}, input_type : {"email", "url"},
     label : LabelValues \cup NonStrings,
     placeholder : PlaceholderValues \cup NonStrings]

\* the current room delivers such a request on the topic of its kind
UntypedRequestReceived ==
    \E payload \in UntypedRequests : Notify(room, payload, OwnTopic(payload), FALSE)

NextUntyped ==
    \/ UntypedRequestReceived
    \/ EmailClose
    \/ UrlClose

SpecUntyped == Init /\ [][NextUntyped]_vars

\* a session in which the room is replaced and time passes while the modals
\* are open; the user types into the email field only
NextOpenModal ==
    \/ DataReceived
    \/ ReplaceRoom
    \/ Tick
    \/ EmailChange
    \/ EmailSubmit
    \/ EmailClose
    \/ UrlSubmit
    \/ UrlClose

SpecOpenModal == Init /\ [][NextOpenModal]_vars

(***************************************************************************)
(* The validation functions on their own.                                  *)
(***************************************************************************)
\* every text of up to n characters of the alphabet
Texts(alphabet, n) == UNION {[1..k -> alphabet] : k \in 0..n}

\* the addresses the integration guide and the interface contract name
AcceptedAddresses ==
    { <<"u", "s", "e", "r", "@", "e", "x", "a", "m", "p", "l", "e", ".",
        "c", "o", "m">>,
      <<"t", "e", "s", "t", "@", "e", "x", "a", "m", "p", "l", "e", ".",
        "c", "o", "m">> }

RejectedAddresses ==
    { <<"u", "s", "e", "r", "@", "e", "x", "a", "m", "p", "l", "e">>,
      <<"i", "n", "v", "a", "l", "i", "d", ".", "e", "m", "a", "i",
        "l">>,
      <<"t", "e", "s", "t", "@", ".", "c", "o", "m">> }

\* the texts validateEmail is called with
EmailTexts ==
    Texts({"a", "@", ".", " "}, MaxTextLen) \cup AcceptedAddresses
        \cup RejectedAddresses

\* the email field holds any of the texts
InitValidate ==
    /\ showEmailInput = TRUE
    /\ emailLabel = DefaultEmailLabel
    /\ emailPlaceholder = DefaultEmailPlaceholder
    /\ email \in EmailTexts
    /\ emailError = ""
    /\ showUrlInput = FALSE
    /\ urlLabel = DefaultUrlLabel
    /\ urlPlaceholder = DefaultUrlPlaceholder
    /\ url = <<>>
    /\ urlError = ""
    /\ published = <<>>
    /\ consoleErrors = {}
    /\ transcriptions = <<>>
    /\ now = 0
    /\ randomDraws = 0
    /\ finalIds = {}
    /\ firstFinalText = <<>>
    /\ chatMessages = <<>>
    /\ mergedMessages = <<>>
    /\ mounted = TRUE
    /\ room = "room1"
    /\ listeners = SetupAll(NoListeners, "room1")
    /\ lastEvent = [op |-> "mount"]

\* validateEmail(email) is called
ValidateEmail ==
    /\ lastEvent' = [op |-> "validateEmail", result |-> validateEmail(email)]
    /\ UNCHANGED <<inputVars, timelineVars, mergeVars, lifecycleVars>>

NextValidate ==
    \/ ValidateEmail

SpecValidate == InitValidate /\ [][NextValidate]_vars

\* what the texts typed into the URL field start with: nothing, a scheme in
\* either letter case, or a scheme name without its colon
UrlPrefixes ==
    { <<>>, <<"h", "t", "t", "p", ":">>, <<"h", "t", "t", "p", "s", ":">>,
      <<"H", "T", "T", "P", ":">>, <<"f", "t", "p", ":">>,
      <<"f", "i", "l", "e", ":">>, <<"m", "a", "i", "l", "t", "o", ":">>,
      <<"h", "t", "t", "p">> }

\* the URLs the interface contract names
AcceptedUrls ==
    { <<"h", "t", "t", "p", "s", ":", "/", "/", "e", "x", "a", "m", "p", "l",
        "e", ".", "c", "o", "m">> }

RejectedUrls ==
    { <<"f", "t", "p", ":", "/", "/", "e", "x", "a", "m", "p", "l", "e", ".",
        "c", "o", "m">>,
      <<"n", "o", "t", " ", "a", " ", "u", "r", "l">> }

\* the texts the URL form is submitted with
UrlTexts ==
    {prefix \o body : prefix \in UrlPrefixes,
                      body \in Texts({"a", ".", "/", ":", " "}, MaxUrlBody)}
        \cup AcceptedUrls \cup RejectedUrls

\* the URL modal is open with any of the texts in its field
InitUrlForm ==
    /\ showEmailInput = FALSE
    /\ emailLabel = DefaultEmailLabel
    /\ emailPlaceholder = DefaultEmailPlaceholder
    /\ email = <<>>
    /\ emailError = ""
    /\ showUrlInput = TRUE
    /\ urlLabel = DefaultUrlLabel
    /\ urlPlaceholder = DefaultUrlPlaceholder
    /\ url \in UrlTexts
    /\ urlError = ""
    /\ published = <<>>
    /\ consoleErrors = {}
    /\ transcriptions = <<>>
    /\ now = 0
    /\ randomDraws = 0
    /\ finalIds = {}
    /\ firstFinalText = <<>>
    /\ chatMessages = <<>>
    /\ mergedMessages = <<>>
    /\ mounted = TRUE
    /\ room = "room1"
    /\ listeners = SetupAll(NoListeners, "room1")
    /\ lastEvent = [op |-> "mount"]

NextUrlForm ==
    \/ UrlSubmit

SpecUrlForm == InitUrlForm /\ [][NextUrlForm]_vars

(***************************************************************************)
(* Properties of the inbound side of the structured-input protocol,        *)
(* checked under SpecInbound, where lastEvent keeps each notification.     *)
(***************************************************************************)
\* the payloads that are a well-formed request for the given kind
RequestsFor(kind) == {p \in RequestPayloads : p.input_type = kind}

\* the payloads that parse to an object that is no request for the given kind
NotRequestsFor(kind) ==
    {p \in Payloads : p.json = "object"
                      /\ (p.type # "request_input" \/ p.input_type # kind)}

\* the label or placeholder a request asks for: its own text, or the default
\* when the field is absent or empty
Asked(field, default) == IF field = Undefined \/ field = "" THEN default ELSE field

Notified == lastEvent.op = "DataReceived"

\* C1 as stated: every request of the hook's kind, whatever its topic, opens
\* the modal with the message's label and placeholder or the defaults.
C1_AnyTopic ==
    Notified =>
        /\ lastEvent.payload \in RequestsFor("email") =>
               emailHookVars =
                   <<TRUE, Asked(lastEvent.payload.label, DefaultEmailLabel),
                     Asked(lastEvent.payload.placeholder, DefaultEmailPlaceholder)>>
        /\ lastEvent.payload \in RequestsFor("url") =>
               urlHookVars =
                   <<TRUE, Asked(lastEvent.payload.label, DefaultUrlLabel),
                     Asked(lastEvent.payload.placeholder, DefaultUrlPlaceholder)>>

\* C1, amended: every request of the hook's kind delivered on the hook's own
\* topic opens the modal with the message's label and placeholder, each
\* replaced by the kind's default when absent or empty, whatever label and
\* placeholder an earlier request left behind.
C1_OnOwnTopic ==
    Notified =>
        /\ (lastEvent.payload \in RequestsFor("email")
            /\ lastEvent.topic = "email_input") =>
               emailHookVars =
                   <<TRUE, Asked(lastEvent.payload.label, DefaultEmailLabel),
                     Asked(lastEvent.payload.placeholder, DefaultEmailPlaceholder)>>
        /\ (lastEvent.payload \in RequestsFor("url")
            /\ lastEvent.topic = "url_input") =>
               urlHookVars =
                   <<TRUE, Asked(lastEvent.payload.label, DefaultUrlLabel),
                     Asked(lastEvent.payload.placeholder, DefaultUrlPlaceholder)>>

\* a request with an empty label arrives on the email topic while the label of
\* an earlier request is still set, and the default replaces it
C1_Witness ==
    /\ Notified
    /\ lastEvent.payload \in RequestsFor("email")
    /\ lastEvent.topic = "email_input"
    /\ lastEvent.payload.label = ""
    /\ lastEvent.before.email = <<FALSE, "L", DefaultEmailPlaceholder>>
    /\ emailHookVars = <<TRUE, DefaultEmailLabel, "P">>

\* C2: a request of the hook's kind that arrives on another topic than the
\* hook's own, or with no topic, leaves the hook's visibility, label and
\* placeholder unchanged.
C2_OwnTopicOnly ==
    Notified =>
        /\ (lastEvent.payload \in RequestsFor("email")
            /\ lastEvent.topic # "email_input") =>
               emailHookVars = lastEvent.before.email
        /\ (lastEvent.payload \in RequestsFor("url")
            /\ lastEvent.topic # "url_input") =>
               urlHookVars = lastEvent.before.url

\* C3: a message that parses to an object whose type is not "request_input"
\* or whose input_type is not the hook's kind changes neither visibility nor
\* label nor placeholder of that hook.
C3_MismatchIgnored ==
    Notified =>
        /\ lastEvent.payload \in NotRequestsFor("email") =>
               emailHookVars = lastEvent.before.email
        /\ lastEvent.payload \in NotRequestsFor("url") =>
               urlHookVars = lastEvent.before.url

\* a message of another type that names the email kind and carries a label
\* reaches the open email modal on its topic, and the modal keeps its state
C3_Witness ==
    /\ Notified
    /\ lastEvent.payload.type = "other"
    /\ lastEvent.payload.input_type = "email"
    /\ lastEvent.topic = "email_input"
    /\ emailHookVars = <<TRUE, DefaultEmailLabel, "P">>

BrokenPayload == Notified /\ lastEvent.payload \in BrokenPayloads

\* C4 as stated: a payload that is not valid JSON, or null, changes no hook
\* state, is reported to the log by each handler, and no exception escapes.
C4_AlwaysLogged ==
    BrokenPayload =>
        /\ emailHookVars = lastEvent.before.email
        /\ urlHookVars = lastEvent.before.url
        /\ ~lastEvent.escaped
        /\ consoleErrors = {"useEmailInput", "useUrlInput"}

\* C4, amended: a payload that is not valid JSON, or null, changes no hook
\* state and no exception escapes a handler; the hook on whose own topic it
\* arrived reports the error to the log.
C4_BrokenDropped ==
    BrokenPayload =>
        /\ emailHookVars = lastEvent.before.email
        /\ urlHookVars = lastEvent.before.url
        /\ ~lastEvent.escaped
        /\ lastEvent.topic = "email_input" => "useEmailInput" \in consoleErrors
        /\ lastEvent.topic = "url_input" => "useUrlInput" \in consoleErrors

\* the JSON text null arrives on the URL topic while the URL modal is open
\* with a requested label
C4_Witness ==
    /\ BrokenPayload
    /\ lastEvent.payload.json = "null"
    /\ lastEvent.topic = "url_input"
    /\ urlHookVars = <<TRUE, "L", DefaultUrlPlaceholder>>
    /\ "useUrlInput" \in consoleErrors

(***************************************************************************)
(* Properties of the outbound side, checked under Spec.                    *)
(***************************************************************************)
CharAt(chars, i) == IF i \in 1..Len(chars) THEN chars[i] ELSE ""

RECURSIVE ReadChars(_, _, _)
\* the rest of a JSON string literal from position j: its value and the
\* position after the closing quotation mark
ReadChars(chars, j, acc) ==
    IF j > Len(chars) THEN [ok |-> FALSE, value |-> acc, next |-> j]
    ELSE IF chars[j] = "\"" THEN [ok |-> TRUE, value |-> acc, next |-> j + 1]
    ELSE IF chars[j] = "\\"
    THEN IF CharAt(chars, j + 1) \in {"\"", "\\"}
         THEN ReadChars(chars, j + 2, Append(acc, chars[j + 1]))
         ELSE [ok |-> FALSE, value |-> acc, next |-> j]
    ELSE ReadChars(chars, j + 1, Append(acc, chars[j]))

\* a JSON string literal at position i
ReadString(chars, i) ==
    IF CharAt(chars, i) = "\"" THEN ReadChars(chars, i + 1, <<>>)
    ELSE [ok |-> FALSE, value |-> <<>>, next |-> i]

\* what a receiver reads from published bytes: the object {"type": T, K: V}
\* with string values, as [ok, type, key, value]
Received(bytes) ==
    LET chars == TextDecoder_decode(bytes)
        k1 == ReadString(chars, 2)
        v1 == ReadString(chars, k1.next + 1)
        k2 == ReadString(chars, v1.next + 1)
        v2 == ReadString(chars, k2.next + 1)
    IN  [ok |-> /\ CharAt(chars, 1) = "{"
                /\ k1.ok /\ k1.value = <<"t", "y", "p", "e">>
                /\ CharAt(chars, k1.next) = ":"
                /\ v1.ok /\ CharAt(chars, v1.next) = ","
                /\ k2.ok /\ CharAt(chars, k2.next) = ":"
                /\ v2.ok /\ CharAt(chars, v2.next) = "}"
                /\ v2.next = Len(chars),
         type |-> v1.value, key |-> k2.value, value |-> v2.value]

EmailSubmitted ==
    [ok |-> TRUE, key |-> <<"e", "m", "a", "i", "l">>,
     type |-> <<"e", "m", "a", "i", "l", "_", "s", "u", "b", "m", "i", "t",
                "t", "e", "d">>]

UrlSubmitted ==
    [ok |-> TRUE, key |-> <<"u", "r", "l">>,
     type |-> <<"u", "r", "l", "_", "s", "u", "b", "m", "i", "t", "t", "e",
                "d">>]

\* the message m is the envelope of the given kind around the value v
IsEnvelope(m, kind, v) ==
    \E r \in {Received(m.data)} :
        /\ r.ok /\ r.type = kind.type /\ r.key = kind.key
        /\ r.value = v

\* the step is a form submit that reached submitEmail / submitUrl
CalledSubmit(op) == lastEvent'.op = op /\ lastEvent'.result \in PublishOutcomes

\* C5: every call of submitEmail(v) / submitUrl(v) hands exactly one message
\* to publishData; a receiver reads from its bytes the object
\* {type: "email_submitted", email: v} (resp. {type: "url_submitted", url: v})
\* with v unchanged, and the message is published with reliable = true.
C5_OneEnvelope ==
    [][ /\ CalledSubmit("EmailSubmit") =>
               /\ Len(published') = Len(published) + 1
               /\ SubSeq(published', 1, Len(published)) = published
               /\ published'[Len(published')].reliable = TRUE
               /\ IsEnvelope(published'[Len(published')], EmailSubmitted, email)
        /\ CalledSubmit("UrlSubmit") =>
               /\ Len(published') = Len(published) + 1
               /\ SubSeq(published', 1, Len(published)) = published
               /\ published'[Len(published')].reliable = TRUE
               /\ IsEnvelope(published'[Len(published')], UrlSubmitted, url) ]_vars

\* an email address with a quotation mark in it was submitted and is read back
\* from the published bytes
C5_Witness ==
    /\ lastEvent.op = "EmailSubmit"
    /\ lastEvent.result = "fulfilled"
    /\ Len(published) = 1
    /\ IsEnvelope(published[1], EmailSubmitted, <<"q", "\"", "@", "b", ".", "c">>)

SubmittedEmail == lastEvent.op = "EmailSubmit" /\ lastEvent.result \in PublishOutcomes
SubmittedUrl == lastEvent.op = "UrlSubmit" /\ lastEvent.result \in PublishOutcomes

\* C6 as stated: after submit the modal is hidden whatever the publish did:
\* success, later rejection or a throw.
C6_HiddenWhateverHappens ==
    /\ SubmittedEmail => ~showEmailInput
    /\ SubmittedUrl => ~showUrlInput

\* C6, amended: after submit the modal is hidden as soon as publishData has
\* returned, whether its promise is fulfilled or rejected later; when
\* publishData throws, the modal stays visible.
C6_HiddenOnReturn ==
    /\ SubmittedEmail => (showEmailInput <=> lastEvent.result = "throws")
    /\ SubmittedUrl => (showUrlInput <=> lastEvent.result = "throws")

\* a URL was submitted, publishData returned a promise that is rejected later,
\* and the modal is hidden
C6_Witness ==
    /\ SubmittedUrl
    /\ lastEvent.result = "rejected"
    /\ ~showUrlInput
    /\ Len(published) = 1

FailedToSubmit == "Failed to submit. Please try again."

\* C7: when publishData throws during a submit, no exception leaves the
\* form's submit handler, the form shows the failed-to-submit error, the modal
\* stays visible with the typed value, and publishData was called once.
C7_ThrowContained ==
    /\ (SubmittedEmail /\ lastEvent.result = "throws") =>
           /\ ~lastEvent.escaped
           /\ emailError = FailedToSubmit
           /\ showEmailInput
           /\ validateEmail(email)
    /\ (SubmittedUrl /\ lastEvent.result = "throws") =>
           /\ ~lastEvent.escaped
           /\ urlError = FailedToSubmit
           /\ showUrlInput
           /\ validateUrl(url)

\* local@domain.tld: one "@", no white space, a "." after the "@" with text
\* before it and after it
EmailShape(s) ==
    \E i, j \in 1..Len(s) :
        /\ s[i] = "@" /\ s[j] = "."
        /\ 1 < i /\ i + 1 < j /\ j < Len(s)
        /\ \A k \in 1..Len(s) : (s[k] = "@" => k = i) /\ s[k] \notin WhiteSpace

\* the text starts, white space aside and in any letter case, with http: or
\* https:
HasHttpScheme(s) ==
    LET t == Trim(s)
        Lower(n) == [k \in 1..n |-> ToLower(t[k])]
    IN  \/ Len(t) >= 5 /\ Lower(5) = <<"h", "t", "t", "p", ":">>
        \/ Len(t) >= 6 /\ Lower(6) = <<"h", "t", "t", "p", "s", ":">>

\* the message is a response with a valid value
ValidResponse(m) ==
    \E r \in {Received(m.data)} :
        /\ r.ok
        /\ \/ r.type = EmailSubmitted.type /\ r.key = EmailSubmitted.key
              /\ EmailShape(r.value)
           \/ r.type = UrlSubmitted.type /\ r.key = UrlSubmitted.key
              /\ HasHttpScheme(r.value) /\ URL_protocol(r.value) # <<>>

\* C8: the published messages change only by a form submit whose field value
\* passed validation, which appends the response with that value: an email of
\* the shape local@domain.tld or an absolute http or https URL, so every
\* message ever published is such a response; a submit that fails validation,
\* a keystroke, a close and an inbound message leave the published messages
\* as they are.
C8_OnlyValidatedSubmits ==
    [][ /\ published' # published =>
               /\ \/ CalledSubmit("EmailSubmit") /\ validateEmail(email)
                     /\ published' = Append(published, published'[Len(published')])
                     /\ IsEnvelope(published'[Len(published')], EmailSubmitted, email)
                  \/ CalledSubmit("UrlSubmit") /\ validateUrl(url)
                     /\ published' = Append(published, published'[Len(published')])
                     /\ IsEnvelope(published'[Len(published')], UrlSubmitted, url)
               /\ ValidResponse(published'[Len(published')])
        /\ lastEvent'.op \in {"DataReceived", "EmailChange", "UrlChange",
                              "EmailClose", "UrlClose"} =>
               published' = published
        /\ (lastEvent'.op \in {"EmailSubmit", "UrlSubmit"}
            /\ lastEvent'.result \in {"required", "invalid"}) =>
               published' = published ]_vars

\* after a URL was published, an address without top-level domain was refused
\* with the field error, and the published messages are the one valid response
C8_Witness ==
    /\ lastEvent.op = "EmailSubmit"
    /\ lastEvent.result = "invalid"
    /\ email = <<"a", "@", "b">>
    /\ emailError = EmailInvalid
    /\ Len(published) = 1
    /\ ValidResponse(published[1])

\* C9: closing a modal sets its visibility to false, leaves the published
\* messages as they are and leaves the label and the placeholder unchanged.
C9_CloseOnlyHides ==
    [][ /\ lastEvent'.op = "EmailClose" =>
               /\ ~showEmailInput'
               /\ published' = published
               /\ emailLabel' = emailLabel
               /\ emailPlaceholder' = emailPlaceholder
        /\ lastEvent'.op = "UrlClose" =>
               /\ ~showUrlInput'
               /\ published' = published
               /\ urlLabel' = urlLabel
               /\ urlPlaceholder' = urlPlaceholder ]_vars

\* the email modal was closed after a request that gave it a label, with a
\* message already published
C9_Witness ==
    /\ lastEvent.op = "EmailClose"
    /\ ~showEmailInput
    /\ emailLabel = "L"
    /\ emailPlaceholder = "P"
    /\ Len(published) = 1

(***************************************************************************)
(* Properties of the transcription timeline, checked under SpecTimeline.   *)
(***************************************************************************)
\* every entry comes from a segment delivered as final: under that segment's
\* id, or under a generated id for a final segment without id
EntriesAreFinals ==
    \A i \in 1..Len(transcriptions) :
        IF transcriptions[i].id.made = "segment"
        THEN transcriptions[i].id.id \in finalIds
        ELSE "" \in finalIds

\* C10: only final segments enter the timeline: a notification leaves the
\* entries there are untouched and can only append, one without a final
\* segment changes nothing, and the id of every entry was delivered as final.
C10_OnlyFinals ==
    [][ /\ lastEvent'.op = "TranscriptionReceived" =>
               /\ Len(transcriptions') >= Len(transcriptions)
               /\ lastEvent'.batch # "finals" => transcriptions' = transcriptions
               /\ SubSeq(transcriptions', 1, Len(transcriptions)) = transcriptions
        /\ EntriesAreFinals' ]_vars

\* a notification with interim segments only arrived when the timeline held
\* one entry, and the interim id has no entry
C10_Witness ==
    /\ lastEvent.op = "TranscriptionReceived"
    /\ lastEvent.batch = "interims"
    /\ "a" \notin finalIds
    /\ Len(transcriptions) = 1

\* every entry under a segment id is the only one under that id and carries
\* the text of the first final delivered for the id
OncePerId ==
    \A i \in 1..Len(transcriptions) :
        transcriptions[i].id.made = "segment" =>
            /\ \A j \in 1..Len(transcriptions) :
                   transcriptions[j].id = transcriptions[i].id => j = i
            /\ transcriptions[i].id.id \in DOMAIN firstFinalText
            /\ transcriptions[i].message = firstFinalText[transcriptions[i].id.id]

\* C11: a non-empty segment id is promoted at most once: the list holds at
\* most one entry per id, with the text of the first final delivered for the
\* id, and a notification whose finals all repeat ids delivered as final
\* before leaves the list unchanged, whatever their text.
C11_PromotedOnce ==
    [][ /\ OncePerId'
        /\ (lastEvent'.op = "TranscriptionReceived" /\ finalIds' = finalIds
            /\ "" \notin finalIds') =>
               transcriptions' = transcriptions ]_vars

\* the one entry, for the id "a", was made at clock 0 with the text of the
\* first final, and the last notification handled a final at clock 1: with no
\* generated id so far that final repeated the id "a" and was dropped
C11_Witness ==
    /\ lastEvent.op = "TranscriptionReceived"
    /\ lastEvent.batch = "finals"
    /\ randomDraws = 0
    /\ now = 1
    /\ Len(transcriptions) = 1
    /\ transcriptions[1].id = SegmentId("a")
    /\ transcriptions[1].timestamp = 0
    /\ transcriptions[1].message = "hi"
    /\ firstFinalText["a"] = "hi"

(***************************************************************************)
(* Properties of the merged timeline, checked under SpecMerge.             *)
(***************************************************************************)
\* what the merge reads: the transcription entries, then the chat messages
Sources == transcriptions \o chatMessages

FromChat(e) == e.id.made = "chat"

\* C12: the merged timeline is sorted in non-decreasing order of timestamp,
\* whatever the order in which chat messages and finals arrived.
C12_Sorted ==
    \A i, j \in 1..Len(mergedMessages) :
        i < j => mergedMessages[i].timestamp <= mergedMessages[j].timestamp

\* chat messages of the timestamps 0 and 2 and a final received at 1 are
\* merged in the order 0, 1, 2
C12_Witness ==
    /\ Len(chatMessages) = 2
    /\ chatMessages[1].timestamp = 2
    /\ chatMessages[2].timestamp = 0
    /\ Len(transcriptions) = 1
    /\ mergedMessages = <<chatMessages[2], transcriptions[1], chatMessages[1]>>

\* C13: no two entries of the merged timeline have the same id, the entries
\* of transcriptions and of chat messages counted together.
C13_UniqueIds ==
    \A i, j \in 1..Len(mergedMessages) :
        IdText(mergedMessages[i].id) = IdText(mergedMessages[j].id) => i = j

\* the number of times e occurs in list
Occurrences(list, e) == Cardinality({i \in 1..Len(list) : list[i] = e})

\* C14: the merged timeline is a permutation of the transcription entries
\* followed by the chat messages as they are now: every entry of either list
\* occurs in it as often as there, unchanged, and nothing else occurs in it.
C14_Permutation ==
    /\ Len(mergedMessages) = Len(Sources)
    /\ \A i \in 1..Len(Sources) :
           Occurrences(mergedMessages, Sources[i]) = Occurrences(Sources, Sources[i])

\* the chat message delivered last is in the merged timeline, in front of a
\* transcription entry that was there before it
C14_Witness ==
    /\ lastEvent.op = "ChatReceived"
    /\ Len(transcriptions) = 1
    /\ Len(chatMessages) = 1
    /\ chatMessages[1].id = ChatId(lastEvent.id)
    /\ mergedMessages = <<chatMessages[1], transcriptions[1]>>

\* the place of the entry of the merged timeline in what the merge read
PlaceInSources(e) == CHOOSE k \in 1..Len(Sources) : Sources[k] = e

\* C15: entries of equal timestamp are in the merged timeline in the order
\* of the concatenation: transcription entries before chat messages, and the
\* entries of one source in the order of that source.
C15_StableTies ==
    \A i, j \in 1..Len(mergedMessages) :
        (i < j /\ mergedMessages[i].timestamp = mergedMessages[j].timestamp) =>
            PlaceInSources(mergedMessages[i]) < PlaceInSources(mergedMessages[j])

\* two chat messages and a transcription entry received after them, all of
\* one timestamp: the transcription entry is first, the chat messages follow
\* in the order of their delivery
C15_Witness ==
    /\ lastEvent.op = "TranscriptionReceived"
    /\ Len(chatMessages) = 2
    /\ Len(transcriptions) = 1
    /\ \A i \in 1..3 : mergedMessages[i].timestamp = 1
    /\ mergedMessages = <<transcriptions[1], chatMessages[1], chatMessages[2]>>

\* C16: the merge does not change the lists it reads and gives the same list
\* when it is computed again: computing it again changes neither list nor the
\* merged timeline, a delivered chat message is put behind the chat messages
\* there were, which stay as they were, and a notification leaves the
\* transcription entries there were in their places.
C16_PureMerge ==
    [][ /\ lastEvent'.op = "Recompute" =>
               /\ mergedMessages' = mergedMessages
               /\ transcriptions' = transcriptions
               /\ chatMessages' = chatMessages
        /\ lastEvent'.op = "ChatReceived" =>
               /\ transcriptions' = transcriptions
               /\ chatMessages' =
                      Append(chatMessages,
                             [chatMessages'[Len(chatMessages')] EXCEPT
                                  !.id = ChatId(lastEvent'.id),
                                  !.timestamp = lastEvent'.timestamp])
        /\ lastEvent'.op = "TranscriptionReceived" =>
               /\ chatMessages' = chatMessages
               /\ SubSeq(transcriptions', 1, Len(transcriptions)) = transcriptions
       ]_vars

\* the merge was computed again on chat messages that are not in the order
\* of their timestamps, and they still are not
C16_Witness ==
    /\ lastEvent.op = "Recompute"
    /\ Len(chatMessages) = 2
    /\ chatMessages[1].timestamp > chatMessages[2].timestamp
    /\ mergedMessages = <<chatMessages[2], chatMessages[1]>>

(***************************************************************************)
(* Properties of the subscriptions, checked under SpecLifecycle.           *)
(***************************************************************************)
\* the step is a notification of a room
Emitted == lastEvent'.op \in {"DataReceived", "TranscriptionReceived"}

HookStateUnchanged ==
    /\ emailHookVars' = emailHookVars
    /\ urlHookVars' = urlHookVars
    /\ transcriptions' = transcriptions

\* C17: after the teardown no handler of a hook is registered on any room,
\* and a notification emitted by a room then changes no state of a hook.
C17_NoHandlerAfterTeardown ==
    [][ /\ ~mounted' => \A h \in Hooks, r \in Rooms : listeners'[h][r] = 0
        /\ (~mounted /\ Emitted) => HookStateUnchanged ]_vars

\* after an unmount with the email modal open, a room emitted a final
\* segment and the transcription list stayed empty
C17_Witness ==
    /\ ~mounted
    /\ lastEvent.op = "TranscriptionReceived"
    /\ lastEvent.batch = "finals"
    /\ transcriptions = <<>>
    /\ showEmailInput

\* C18: across mounts, room replacements and unmounts each mounted hook has
\* exactly one handler registered, on the current room and on no other: a
\* notification of another room changes no state of a hook, and on a
\* notification of the current room the handlers run: a request on its topic
\* opens the modal of its kind, a final segment with a new id is appended.
C18_OneHandlerOnCurrentRoom ==
    [][ /\ mounted' => \A h \in Hooks, r \in Rooms :
                           listeners'[h][r] = IF r = room' THEN 1 ELSE 0
        /\ (mounted /\ Emitted /\ lastEvent'.from # room) => HookStateUnchanged
        /\ (mounted /\ lastEvent'.op = "DataReceived" /\ lastEvent'.from = room) =>
               /\ lastEvent'.payload.input_type = "email" => showEmailInput'
               /\ lastEvent'.payload.input_type = "url" => showUrlInput'
        /\ (mounted /\ lastEvent'.op = "TranscriptionReceived"
            /\ lastEvent'.from = room /\ finalIds' # finalIds) =>
               Len(transcriptions') = Len(transcriptions) + 1 ]_vars

\* after the room was replaced, the old room emitted an email request, which
\* left the email modal closed, while the URL modal had been opened
C18_Witness ==
    /\ mounted
    /\ room = "room2"
    /\ lastEvent.op = "DataReceived"
    /\ lastEvent.from = "room1"
    /\ lastEvent.payload.input_type = "email"
    /\ ~showEmailInput
    /\ showUrlInput

(***************************************************************************)
(* Properties of validation.                                               *)
(***************************************************************************)
\* the text consists of white space only, or of nothing
Blank(s) == \A i \in 1..Len(s) : s[i] \in WhiteSpace

\* the submit was refused: the modal is still open with the text in the
\* field, and publishData was not called
Refused ==
    /\ showEmailInput'
    /\ email' = email
    /\ published' = published
    /\ lastEvent'.result \notin PublishOutcomes
    /\ ~lastEvent'.escaped

\* C19: a submit of the email form with a text that is empty after trimming
\* is refused with the error 'Email is required', one with another text
\* that has not the shape of an address with 'Please enter a valid email
\* address'; in both cases the modal stays open and submitEmail is not
\* called.
C19_RequiredOrInvalid ==
    [][ lastEvent'.op = "EmailSubmit" =>
            /\ Blank(email) => Refused /\ emailError' = "Email is required"
            /\ (~Blank(email) /\ ~EmailShape(email)) =>
                   Refused /\ emailError' = "Please enter a valid email address"
      ]_vars

\* a text of one space was submitted and refused as missing
C19_Witness ==
    /\ lastEvent.op = "EmailSubmit"
    /\ lastEvent.result = "required"
    /\ email = <<" ">>
    /\ emailError = "Email is required"
    /\ showEmailInput
    /\ published = <<>>

\* C20: validateEmail accepts a text exactly when it has the shape of one or
\* more characters that are neither white space nor "@", an "@", one or more
\* such characters, a "." and one or more such characters: it accepts
\* user@example.com and test@example.com and rejects user@example,
\* invalid.email, test@.com and every text with white space or a second "@".
C20_EmailShape ==
    lastEvent.op = "validateEmail" =>
        /\ lastEvent.result <=> EmailShape(email)
        /\ email \in AcceptedAddresses => lastEvent.result
        /\ email \in RejectedAddresses => ~lastEvent.result
        /\ (\E i \in 1..Len(email) : email[i] \in WhiteSpace) => ~lastEvent.result
        /\ Cardinality({i \in 1..Len(email) : email[i] = "@"}) > 1 =>
               ~lastEvent.result

\* an address with a second "@", of the right shape otherwise, was rejected
C20_Witness ==
    /\ lastEvent.op = "validateEmail"
    /\ email = <<"a", "@", "@", "a", ".", "a">>
    /\ ~lastEvent.result

\* the URL submit was refused: the modal is still open with the text in the
\* field, and publishData was not called
RefusedUrl ==
    /\ showUrlInput'
    /\ url' = url
    /\ published' = published
    /\ lastEvent'.result \notin PublishOutcomes
    /\ ~lastEvent'.escaped

\* the text is an absolute URL of the scheme http or https
HttpUrl(s) == HasHttpScheme(s) /\ URL_protocol(s) # <<>>

\* C21: a submit of the URL form reaches submitUrl exactly when the text
\* parses as an absolute URL of the scheme http or https, as
\* https://example.com does and ftp://example.com and 'not a url' do not; a
\* text that is empty after trimming is refused with 'URL is required', every
\* other text that is not accepted with 'Please enter a valid URL (e.g.,
\* https://www.example.com)', and a refused submit does not call submitUrl.
C21_HttpUrlOrRefused ==
    [][ lastEvent'.op = "UrlSubmit" =>
            /\ lastEvent'.result \in PublishOutcomes <=> HttpUrl(url)
            /\ url \in AcceptedUrls => lastEvent'.result \in PublishOutcomes
            /\ url \in RejectedUrls => lastEvent'.result = "invalid"
            /\ Blank(url) => RefusedUrl /\ urlError' = "URL is required"
            /\ (~Blank(url) /\ ~HttpUrl(url)) =>
                   /\ RefusedUrl
                   /\ urlError' =
                          "Please enter a valid URL (e.g., https://www.example.com)"
      ]_vars

\* ftp://example.com was submitted and refused as invalid
C21_Witness ==
    /\ lastEvent.op = "UrlSubmit"
    /\ lastEvent.result = "invalid"
    /\ url = <<"f", "t", "p", ":", "/", "/", "e", "x", "a", "m", "p", "l", "e",
               ".", "c", "o", "m">>
    /\ urlError = UrlInvalid
    /\ showUrlInput
    /\ published = <<>>

(***************************************************************************)
(* Properties of the modals across requests, checked under Spec.           *)
(***************************************************************************)
\* the step appended the response of the given kind with the value v to the
\* published messages
Published(kind, v) ==
    /\ published' = Append(published, published'[Len(published')])
    /\ IsEnvelope(published'[Len(published')], kind, v)

\* C22: a validation error is recoverable: a submit of a value that is not
\* valid leaves the modal open with a non-empty error string; a keystroke
\* and a close set the error string to empty; and a submit of a valid value
\* is published whatever was refused before, with the error string empty.
C22_ErrorClearedOnEdit ==
    [][ /\ (lastEvent'.op = "EmailSubmit" /\ ~EmailShape(email)) =>
               emailError' # "" /\ showEmailInput'
        /\ lastEvent'.op \in {"EmailChange", "EmailClose"} => emailError' = ""
        /\ (lastEvent'.op = "EmailSubmit" /\ EmailShape(email)) =>
               Published(EmailSubmitted, email) /\ emailError' = ""
        /\ (lastEvent'.op = "UrlSubmit" /\ ~HttpUrl(url)) =>
               urlError' # "" /\ showUrlInput'
        /\ lastEvent'.op \in {"UrlChange", "UrlClose"} => urlError' = ""
        /\ (lastEvent'.op = "UrlSubmit" /\ HttpUrl(url)) =>
               Published(UrlSubmitted, url) /\ urlError' = ""
      ]_vars

\* a keystroke replaced a refused address by a valid one and cleared the
\* error shown for it, with the modal still open
C22_Witness ==
    /\ lastEvent.op = "EmailChange"
    /\ lastEvent.error = EmailInvalid
    /\ emailError = ""
    /\ email = <<"q", "\"", "@", "b", ".", "c">>
    /\ showEmailInput
    /\ published = <<>>

\* C23: a visible modal stays visible until the user submits or closes it:
\* the only steps after which a modal that was visible is hidden are a submit
\* and a close of that modal, so neither the passing of time nor an inbound
\* message of any shape nor the replacement of the room hides it.
C23_VisibleUntilUserActs ==
    [][ /\ (showEmailInput /\ ~showEmailInput') =>
               lastEvent'.op \in {"EmailSubmit", "EmailClose"}
        /\ (showUrlInput /\ ~showUrlInput') =>
               lastEvent'.op \in {"UrlSubmit", "UrlClose"}
        /\ lastEvent'.op \in {"DataReceived", "ReplaceRoom", "Tick"} =>
               /\ showEmailInput => showEmailInput'
               /\ showUrlInput => showUrlInput' ]_vars

\* the email modal, opened by a request with a label, is still visible after
\* the room was replaced, time has passed and the new room delivered a
\* payload that its handler could not parse
C23_Witness ==
    /\ lastEvent.op = "DataReceived"
    /\ lastEvent.from = "room2"
    /\ "useEmailInput" \in consoleErrors
    /\ room = "room2"
    /\ now = 1
    /\ showEmailInput
    /\ emailLabel = "L"

(***************************************************************************)
(* Properties of the entries of the transcription list.                    *)
(***************************************************************************)
\* the list after is the list before with the entries of more at its end
Appended(before, after, more) ==
    /\ Len(after) = Len(before) + more
    /\ SubSeq(after, 1, Len(before)) = before

\* C24 as stated: every state of the list is the previous state, or the
\* previous state with one entry appended at the end.
C24_OneEntryPerState ==
    [][ \/ transcriptions' = transcriptions
        \/ Appended(transcriptions, transcriptions', 1) ]_vars

\* C24, amended: the transcription list is append-only: every state of the
\* list is the previous state with new entries at its end, one for each id
\* delivered as final for the first time and one for each final without id
\* in the notification; each updater returns the list it was given or that
\* list with one entry appended; and the replacement of the room leaves the
\* list as it is.
C24_AppendOnly ==
    [][ /\ Appended(transcriptions, transcriptions',
                    Cardinality((finalIds' \ finalIds) \ {""})
                        + (randomDraws' - randomDraws))
        /\ lastEvent'.op = "ReplaceRoom" => transcriptions' = transcriptions
        /\ \A segment \in Segments, participant \in Participants :
               \E r \in {PromoteSegment(segment, participant, now',
                                        transcriptions', randomDraws')} :
                   \/ r.list = transcriptions'
                   \/ Appended(transcriptions', r.list, 1) ]_vars

\* the room was replaced while the list held two entries, and it still holds
\* them
C24_Witness ==
    /\ lastEvent.op = "ReplaceRoom"
    /\ room = "room2"
    /\ Len(transcriptions) = 2
    /\ transcriptions[1].id = SegmentId("a")
    /\ transcriptions[2].id = GeneratedId(1)

\* C25: the timestamp of an entry is a reading of the local clock taken
\* while the notification that brought its final segment was handled: not
\* before the handler started and not after it returned, whatever the
\* notification carries; so the entries promoted from one notification are
\* all stamped within its handling, and no entry is stamped in the future.
C25_StampedAtReceipt ==
    [][ /\ lastEvent'.op = "TranscriptionReceived" =>
               \A i \in (Len(transcriptions) + 1)..Len(transcriptions') :
                   /\ now <= transcriptions'[i].timestamp
                   /\ transcriptions'[i].timestamp <= now'
        /\ \A i \in 1..Len(transcriptions') : transcriptions'[i].timestamp <= now'
      ]_vars

\* a final received at clock 0 and one received after the clock had moved
\* on to 1 are stamped 0 and 1
C25_Witness ==
    /\ lastEvent.op = "TranscriptionReceived"
    /\ lastEvent.batch = "finals"
    /\ now = 1
    /\ Len(transcriptions) = 2
    /\ transcriptions[1].timestamp = 0
    /\ transcriptions[2].timestamp = 1

\* C26: the entry promoted from a notification is attributed to the local
\* participant exactly when the identity of the notification's participant
\* is the identity of the local participant, and to the notification's
\* participant otherwise.
C26_Attribution ==
    [][ (lastEvent'.op = "TranscriptionReceived"
         /\ Len(transcriptions') > Len(transcriptions)) =>
            \E e \in {transcriptions'[Len(transcriptions')]} :
                /\ e.from = LocalParticipant
                       <=> lastEvent'.participant.identity = LocalParticipant.identity
                /\ lastEvent'.participant.identity # LocalParticipant.identity =>
                       e.from = lastEvent'.participant ]_vars

\* after an entry of the agent, a final from another participant object
\* with the identity of the local participant was promoted and attributed
\* to the local participant
C26_Witness ==
    /\ lastEvent.op = "TranscriptionReceived"
    /\ lastEvent.participant = SameIdentityParticipant
    /\ Len(transcriptions) = 2
    /\ transcriptions[1].from = AgentParticipant
    /\ transcriptions[2].from = LocalParticipant

(***************************************************************************)
(* Properties of the two hooks side by side.                               *)
(***************************************************************************)
\* C27: with both hooks subscribed to the room, one data message changes the
\* state of at most one of them: a message that names the email kind leaves
\* visibility, label and placeholder of the URL hook as they were, on
\* whatever topic it arrives, and one that names the URL kind leaves those
\* of the email hook as they were.
C27_NoCrossTalk ==
    Notified =>
        /\ emailHookVars = lastEvent.before.email
               \/ urlHookVars = lastEvent.before.url
        /\ lastEvent.payload.input_type = "email" =>
               urlHookVars = lastEvent.before.url
        /\ lastEvent.payload.input_type = "url" =>
               emailHookVars = lastEvent.before.email

\* an email request with label and placeholder arrived on the topic of the
\* URL hook while the URL modal was closed: the email modal took them and
\* the URL modal stayed closed with its defaults
C27_Witness ==
    /\ Notified
    /\ lastEvent.payload \in RequestsFor("email")
    /\ lastEvent.topic = "url_input"
    /\ emailHookVars = <<TRUE, "L", "P">>
    /\ urlHookVars = <<FALSE, DefaultUrlLabel, DefaultUrlPlaceholder>>
    /\ lastEvent.before.url = urlHookVars

\* C28: provided publishData does not throw, one opening of a modal gives
\* at most one response: the published messages grow only by a submit of a
\* form whose modal is visible, by one message, and that submit hides the
\* modal; a hidden modal becomes visible only by an inbound message. So a
\* second response of a kind needs a request accepted after the first, and
\* no response precedes the first request.
C28_OneResponsePerOpening ==
    [][ /\ published' # published =>
               /\ Len(published') = Len(published) + 1
               /\ \/ /\ lastEvent'.op = "EmailSubmit"
                     /\ showEmailInput
                     /\ lastEvent'.result # "throws" => ~showEmailInput'
                  \/ /\ lastEvent'.op = "UrlSubmit"
                     /\ showUrlInput
                     /\ lastEvent'.result # "throws" => ~showUrlInput'
        /\ (~showEmailInput /\ showEmailInput') => lastEvent'.op = "DataReceived"
        /\ (~showUrlInput /\ showUrlInput') => lastEvent'.op = "DataReceived"
        /\ (~showEmailInput /\ ~showUrlInput) => published' = published ]_vars

\* the email modal, opened by a request with label and placeholder, was
\* submitted: its response is the one published message and it is hidden
C28_Witness ==
    /\ lastEvent.op = "EmailSubmit"
    /\ lastEvent.result = "fulfilled"
    /\ emailHookVars = <<FALSE, "L", "P">>
    /\ ~showUrlInput
    /\ Len(published) = 1
    /\ IsEnvelope(published[1], EmailSubmitted, <<"q", "\"", "@", "b", ".", "c">>)

\* C29: whenever a modal is hidden, its text field and its error string are
\* empty, so every opening of a modal starts with an empty field and no
\* error: neither a successful submit nor a close leaves a typed value or an
\* error behind for the next request.
C29_HiddenIsEmpty ==
    [][ /\ ~showEmailInput' => email' = <<>> /\ emailError' = ""
        /\ ~showUrlInput' => url' = <<>> /\ urlError' = ""
        /\ (~showEmailInput /\ showEmailInput') => email' = <<>> /\ emailError' = ""
        /\ (~showUrlInput /\ showUrlInput') => url' = <<>> /\ urlError' = "" ]_vars

\* the email modal was closed while it showed the error of a refused
\* address, and is hidden with an empty field and no error
C29_Witness ==
    /\ lastEvent.op = "EmailClose"
    /\ lastEvent.error = EmailInvalid
    /\ ~showEmailInput
    /\ email = <<>>
    /\ emailError = ""

\* C30: a request of a hook's kind that arrives on its topic while the
\* modal is visible keeps it visible and sets label and placeholder to those
\* of the request, or to the defaults where the request has none; like every
\* inbound message it leaves the typed text and the error string of both
\* modals as they are and publishes nothing.
C30_RequestWhileVisible ==
    [][ lastEvent'.op = "DataReceived" =>
            /\ emailModalVars' = emailModalVars
            /\ urlModalVars' = urlModalVars
            /\ published' = published
            /\ (showEmailInput /\ lastEvent'.payload \in RequestsFor("email")) =>
                   emailHookVars' =
                       <<TRUE, Asked(lastEvent'.payload.label, DefaultEmailLabel),
                         Asked(lastEvent'.payload.placeholder,
                               DefaultEmailPlaceholder)>>
            /\ (showUrlInput /\ lastEvent'.payload \in RequestsFor("url")
                 /\ lastEvent'.topic = "url_input") =>
                   urlHookVars' =
                       <<TRUE, Asked(lastEvent'.payload.label, DefaultUrlLabel),
                         Asked(lastEvent'.payload.placeholder,
                               DefaultUrlPlaceholder)>> ]_vars

\* while the email modal was visible with the label and placeholder of a
\* request, a refused address in its field and the error for it, a request
\* without label and placeholder arrived: the defaults are back, the address
\* and the error are still there
C30_Witness ==
    /\ Notified
    /\ lastEvent.payload \in RequestsFor("email")
    /\ lastEvent.payload.label = Undefined
    /\ lastEvent.before.email = <<TRUE, "L", "P">>
    /\ emailHookVars = <<TRUE, DefaultEmailLabel, DefaultEmailPlaceholder>>
    /\ email = <<"a", "@", "b">>
    /\ emailError = EmailInvalid
    /\ published = <<>>

(***************************************************************************)
(* Further properties of the merged timeline, checked under SpecMerge.     *)
(***************************************************************************)
\* the place of a transcription entry in the merged timeline
PlaceInMerged(e) == CHOOSE k \in 1..Len(mergedMessages) : mergedMessages[k] = e

\* C31: with a local clock that never goes backwards, the transcription
\* entries are in the merged timeline in the order in which their final
\* segments were received, which is their order in the transcription list,
\* whatever chat messages lie between them.
C31_ReceiptOrder ==
    /\ \A i \in 1..Len(transcriptions) :
           \E k \in 1..Len(mergedMessages) : mergedMessages[k] = transcriptions[i]
    /\ \A i, j \in 1..Len(transcriptions) :
           i < j => /\ transcriptions[i].timestamp <= transcriptions[j].timestamp
                    /\ PlaceInMerged(transcriptions[i])
                           < PlaceInMerged(transcriptions[j])

\* finals received at the clock readings 0 and 1 with two chat messages of
\* the timestamp 0, one delivered before the second final and one after it:
\* both lie between the two transcription entries
C31_Witness ==
    /\ Len(transcriptions) = 2
    /\ Len(chatMessages) = 2
    /\ transcriptions[1].timestamp = 0
    /\ transcriptions[2].timestamp = 1
    /\ mergedMessages = <<transcriptions[1], chatMessages[1], chatMessages[2],
                          transcriptions[2]>>

(***************************************************************************)
(* Properties of label and placeholder, checked under SpecUntyped.         *)
(***************************************************************************)
\* the value is a string with at least one character
NonEmptyString(v) == v \notin {Undefined, ""} \cup NonStrings

\* C32: in every reachable state the label and the placeholder of each
\* input hook are non-empty strings.
C32_NonEmptyStrings ==
    /\ NonEmptyString(emailLabel)
    /\ NonEmptyString(emailPlaceholder)
    /\ NonEmptyString(urlLabel)
    /\ NonEmptyString(urlPlaceholder)

(***************************************************************************)
(* Properties of generated ids, checked under SpecSameText.                *)
(***************************************************************************)
\* the places of a list whose entry has a generated id
GeneratedPlaces(list) == {i \in 1..Len(list) : list[i].id.made = "generated"}

\* C33: a final segment whose id is empty or absent gets a generated id that
\* no earlier entry has and is never dropped as a duplicate: a notification
\* appends one entry with a generated id for each such final, also when the
\* text is that of an earlier entry.
C33_UnidentifiedAppended ==
    [][(lastEvent'.op = "TranscriptionReceived"
            /\ "unidentified" \in DOMAIN lastEvent')
       => /\ Len(transcriptions') >= Len(transcriptions) + lastEvent'.unidentified
          /\ SubSeq(transcriptions', 1, Len(transcriptions)) = transcriptions
          /\ Cardinality(GeneratedPlaces(transcriptions'))
                 = Cardinality(GeneratedPlaces(transcriptions))
                       + lastEvent'.unidentified
          /\ \A i \in GeneratedPlaces(transcriptions') :
                 \A j \in 1..Len(transcriptions') :
                     i # j => transcriptions'[i].id # transcriptions'[j].id]_vars

C33_Witness ==
    /\ lastEvent.op = "TranscriptionReceived"
    /\ "unidentified" \in DOMAIN lastEvent
    /\ lastEvent.unidentified = 1
    /\ Len(transcriptions) = 2
    /\ transcriptions[1].id.made = "generated"
    /\ transcriptions[2].id.made = "generated"
    /\ transcriptions[1].id # transcriptions[2].id
    /\ transcriptions[1].message = transcriptions[2].message
    /\ transcriptions[1].timestamp = transcriptions[2].timestamp

====
